---------------------------- MODULE Spec2Model ----------------------------
(***************************************************************************)
(* py-ns: a typed client for the NS (Dutch Railways) REST API.             *)
(*                                                                         *)
(* The model follows the call path of the library:                         *)
(*   NSClient -> endpoint module -> HttpTransport -> (server)              *)
(*            -> HttpTransport._handle_response -> endpoint parsing.       *)
(* The caller's planned calls and the server's answers to them are drawn   *)
(* in Init (the script); each action executes one whole method of the      *)
(* library on the head of the script.                                      *)
(***************************************************************************)
EXTENDS Integers, Sequences, FiniteSets, TLC

VARIABLES
    api_key,        \* the api_key given to NSClient / HttpTransport at construction
    client_headers, \* httpx.Client(headers=...): the transport's default headers
    is_closed,      \* the connection pool has been closed
    close_count,    \* how many times self._client.close() has been called
    release_count,  \* how many times the client has released its connection pool
    script,         \* the caller's remaining planned calls, each with the server's answer
    call,           \* the call that ran last
    request,        \* the HTTP request that call put on the wire
    outcome,        \* what that call gave its caller: a value or an exception
    notices,        \* the warnings that call emitted, in order
    scope,          \* the caller's `with` block: "outside", "inside" or "left"
    left_by,        \* how control left the block: "return" or "raise" ("none" before)
    history,        \* "return" or "raise" for each call made so far, in order
    sent,           \* the requests put on the wire so far, each with its call
    sites           \* the calls running at the same time, one per call site

vars == <<api_key, client_headers, is_closed, close_count, release_count, script, call,
          request, outcome, notices, scope, left_by, history, sent, sites>>

-----------------------------------------------------------------------------
(* Python values.  Every value is a tagged record, so that values of       *)
(* different Python types can be compared.                                 *)

None == [t |-> "none"]
Str(s) == [t |-> "str", s |-> s]
Bool(b) == [t |-> "bool", b |-> b]
Num(n) == [t |-> "int", n |-> n]
Lst(items) == [t |-> "list", items |-> items]
\* a dict keeps its items in insertion order: a sequence of <<key, value>>
Obj(items) == [t |-> "dict", items |-> items]

DictKeys(d) == {d[i][1] : i \in 1..Len(d)}
DictHas(d, k) == k \in DictKeys(d)
DictIndex(d, k) == CHOOSE i \in 1..Len(d) : d[i][1] = k
\* d.get(k, default)
DictGet(d, k, default) == IF DictHas(d, k) THEN d[DictIndex(d, k)][2] ELSE default
\* d[k] = v
DictSet(d, k, v) ==
    IF DictHas(d, k)
    THEN [d EXCEPT ![DictIndex(d, k)] = <<k, v>>]
    ELSE Append(d, <<k, v>>)

-----------------------------------------------------------------------------
(* HTTP responses.  The body is either raw bytes that are no JSON document *)
(* or the JSON encoding of a value.                                        *)

Raw(s) == [k |-> "raw", s |-> s]
Json(v) == [k |-> "json", v |-> v]

RECURSIVE Dumps(_)
RECURSIVE DumpsItems(_, _)
DumpsItems(items, isDict) ==
    IF Len(items) = 0 THEN ""
    ELSE LET one == IF isDict
                    THEN "\"" \o items[1][1] \o "\": " \o Dumps(items[1][2])
                    ELSE Dumps(items[1])
         IN  IF Len(items) = 1 THEN one
             ELSE one \o ", " \o DumpsItems(Tail(items), isDict)
\* the text of the JSON document that encodes v
Dumps(v) ==
    CASE v.t = "none" -> "null"
      [] v.t = "str"  -> "\"" \o v.s \o "\""
      [] v.t = "bool" -> IF v.b THEN "true" ELSE "false"
      [] v.t = "int"  -> ToString(v.n)
      [] v.t = "list" -> "[" \o DumpsItems(v.items, FALSE) \o "]"
      [] v.t = "dict" -> "{" \o DumpsItems(v.items, TRUE) \o "}"

\* response.text
ResponseText(response) ==
    IF response.content.k = "raw" THEN response.content.s
    ELSE Dumps(response.content.v)

\* bool(response.content): the body has at least one byte
HasContent(response) == ResponseText(response) # ""

\* response.json() raises unless the body is a JSON document
JsonDecodes(response) == response.content.k = "json"
ResponseJson(response) == response.content.v

\* httpx.Response.is_success
is_success(response) == response.status_code >= 200 /\ response.status_code <= 299

-----------------------------------------------------------------------------
(* py_ns.exceptions and the outcomes of a call                             *)

APIErrorFamily ==
    {"APIError", "AuthenticationError", "NotFoundError", "RateLimitError",
     "ServerError"}

Return(v) == [kind |-> "return", value |-> v]
\* raise cls(message, status_code)
RaiseAPI(cls, message, status_code) ==
    [kind |-> "raise", exc |-> cls, message |-> message,
     status_code |-> status_code]
\* an exception that is not of this library
RaiseOther(cls) == [kind |-> "raise", exc |-> cls]

-----------------------------------------------------------------------------
(* HttpTransport                                                           *)

\* as _extract_error_message, with data.get("message") and no default
_extract_error_message_no_default(response) ==
    IF JsonDecodes(response) /\ ResponseJson(response).t = "dict"
    THEN DictGet(ResponseJson(response).items, "message", None)
    ELSE Str(ResponseText(response))

_extract_error_message(response) ==
    IF JsonDecodes(response) /\ ResponseJson(response).t = "dict"
    THEN DictGet(ResponseJson(response).items, "message",
                 Str(ResponseText(response)))
    ELSE Str(ResponseText(response))

\* the error branch of _handle_response
RaiseForStatus(response, authStatuses) ==
    LET message == _extract_error_message(response)
        status == response.status_code
    IN  IF status \in authStatuses
            THEN RaiseAPI("AuthenticationError", message, status)
        ELSE IF status = 404
            THEN RaiseAPI("NotFoundError", message, status)
        ELSE IF status = 429
            THEN RaiseAPI("RateLimitError", message, status)
        ELSE IF status >= 500
            THEN RaiseAPI("ServerError", message, status)
        ELSE RaiseAPI("APIError", message, status)

\* the success branch of _handle_response
ReturnBody(response) ==
    IF ~HasContent(response) THEN Return(None)
    ELSE IF JsonDecodes(response) THEN Return(ResponseJson(response))
    ELSE RaiseOther("JSONDecodeError")

\* as _handle_response, with `case 401:` for `case 401 | 403:`
_handle_response_401_only(response) ==
    IF is_success(response) THEN ReturnBody(response)
    ELSE RaiseForStatus(response, {401})

\* as _handle_response, with `status_code < 400` for `is_success`
_handle_response_below_400(response) ==
    IF response.status_code < 400 THEN ReturnBody(response)
    ELSE RaiseForStatus(response, {401, 403})

\* as _handle_response, without the `if not response.content` test
_handle_response_always_json(response) ==
    IF is_success(response)
    THEN IF JsonDecodes(response) THEN Return(ResponseJson(response))
         ELSE RaiseOther("JSONDecodeError")
    ELSE RaiseForStatus(response, {401, 403})

_handle_response(response) ==
    IF is_success(response) THEN ReturnBody(response)
    ELSE RaiseForStatus(response, {401, 403})

\* httpx header names are case-insensitive
Lower(name) ==
    CASE name = "Ocp-Apim-Subscription-Key" -> "ocp-apim-subscription-key"
      [] name = "Accept-Language" -> "accept-language"
      [] name = "Authorization" -> "authorization"
      [] OTHER -> name

HeaderNames(h) == {Lower(h[i][1]) : i \in 1..Len(h)}
HeaderIndex(h, name) == CHOOSE i \in 1..Len(h) : Lower(h[i][1]) = Lower(name)
HeaderGet(h, name) ==
    IF Lower(name) \in HeaderNames(h) THEN h[HeaderIndex(h, name)][2] ELSE None

RECURSIVE HeadersUpdate(_, _)
\* httpx: the client's headers, updated with the headers of the call
HeadersUpdate(merged, items) ==
    IF Len(items) = 0 THEN merged
    ELSE LET name == items[1][1]
             one == IF Lower(name) \in HeaderNames(merged)
                    THEN [merged EXCEPT ![HeaderIndex(merged, name)] = items[1]]
                    ELSE Append(merged, items[1])
         IN  HeadersUpdate(one, Tail(items))

\* as MergeHeaders, with the headers of the call replacing the client's
MergeHeaders_replace(defaults, headers) ==
    IF headers = None THEN defaults ELSE headers.items

\* self._client.get(url, params=params, headers=headers) and .post(...):
\* the headers httpx puts on the wire
MergeHeaders(defaults, headers) ==
    IF headers = None THEN defaults ELSE HeadersUpdate(defaults, headers.items)

\* how httpx writes a query value into the URL: true / false for a bool, the
\* text of a string or number, nothing for None
primitive_value_to_str(v) ==
    CASE v.t = "bool" -> IF v.b THEN "true" ELSE "false"
      [] v.t = "none" -> ""
      [] v.t = "str" -> v.s
      [] v.t \in {"int", "float"} -> ToString(v.n)

NoRequest == [method |-> "none"]

\* as DefaultsAfter, for a transport that stores the headers of a call on
\* its client (self._client.headers.update(headers))
DefaultsAfter_updated(defaults, req) ==
    IF req = NoRequest THEN defaults ELSE MergeHeaders(defaults, req.headers)

\* the default headers of the client after a call: headers= is passed to the
\* one request and self._client.headers is not written
DefaultsAfter(defaults, req) == defaults

\* HttpTransport.__init__
TransportInit(key) == <<<<"Ocp-Apim-Subscription-Key", Str(key)>>>>

\* one round trip of self._client: a closed httpx client raises RuntimeError
\* before anything is sent
Send(method, url, params, json, headers, response) ==
    IF is_closed
    THEN [request |-> NoRequest, result |-> RaiseOther("RuntimeError")]
    ELSE [request |-> [method |-> method, url |-> url, params |-> params,
                       json |-> json, headers |-> headers,
                       wire_headers |-> MergeHeaders(client_headers, headers)],
          result |-> _handle_response(response)]

\* HttpTransport.get
get(url, params, headers, response) ==
    Send("GET", url, params, None, headers, response)

\* HttpTransport.post
post(url, json, headers, response) ==
    Send("POST", url, None, json, headers, response)

-----------------------------------------------------------------------------
(* What the endpoint modules use of Python                                 *)

Flt(n) == [t |-> "float", n |-> n]
DateTime(y, mo, d, h, mi) ==
    [t |-> "datetime", y |-> y, mo |-> mo, d |-> d, h |-> h, mi |-> mi]
\* a member of an Enum class
Enum(cls, name, value) == [t |-> "enum", cls |-> cls, name |-> name, value |-> value]
\* an instance of a typed (pydantic) model
Model(cls, data) == [t |-> "model", cls |-> cls, data |-> data]

\* bool(v)
Truthy(v) ==
    CASE v.t = "none" -> FALSE
      [] v.t = "str" -> v.s # ""
      [] v.t = "bool" -> v.b
      [] v.t \in {"int", "float"} -> v.n # 0
      [] v.t \in {"list", "dict"} -> Len(v.items) > 0
      [] OTHER -> TRUE

Pad2(n) == IF n < 10 THEN "0" \o ToString(n) ELSE ToString(n)
\* datetime.isoformat() of a naive datetime with no seconds
isoformat(dt) ==
    Str(ToString(dt.y) \o "-" \o Pad2(dt.mo) \o "-" \o Pad2(dt.d) \o "T"
        \o Pad2(dt.h) \o ":" \o Pad2(dt.mi) \o ":00")

\* member.name
EnumValue_name(e) == Str(e.name)

\* member.value
EnumValue(e) == Str(e.value)

RECURSIVE JoinItems(_, _)
JoinItems(sep, items) ==
    IF Len(items) = 0 THEN ""
    ELSE IF Len(items) = 1 THEN items[1].s
    ELSE items[1].s \o sep \o JoinItems(sep, Tail(items))
\* sep.join(list)
Join(sep, list) == Str(JoinItems(sep, list.items))

\* as _set, without the test of the value
_set_unguarded(params, key, value) == DictSet(params, key, value)

\* travel.py: _set(params, key, value)
_set(params, key, value) ==
    IF value # None THEN DictSet(params, key, value) ELSE params

(* The statements that fill `params`, one record per statement:            *)
(*   Always:    an entry of the dict literal `params = {key: arg, ...}`    *)
(*   IfNotNone: `if arg is not None: params[key] = <via>(arg)`             *)
(*   IfTruthy:  `if arg: params[key] = arg`                                *)
(*   ViaSet:    `_set(params, key, <via>(arg))`                            *)
Always(key, arg) == [how |-> "always", key |-> key, arg |-> arg, via |-> "plain"]
IfNotNone(key, arg, via) == [how |-> "not_none", key |-> key, arg |-> arg, via |-> via]
IfTruthy(key, arg) == [how |-> "truthy", key |-> key, arg |-> arg, via |-> "plain"]
ViaSet(key, arg, via) == [how |-> "_set", key |-> key, arg |-> arg, via |-> via]

\* as Via, with `x` where the code has `x or None`
Via_without_or(via, x) ==
    CASE via = "plain" -> x
      [] via = "isoformat" -> isoformat(x)
      [] via = "value" -> EnumValue(x)
      [] via = "join" -> Join(",", x)
      [] via = "isoformat_if" -> IF Truthy(x) THEN isoformat(x) ELSE None
      [] via = "value_if" -> IF Truthy(x) THEN EnumValue(x) ELSE None
      [] via = "or_none" -> x

\* the expression a statement stores
Via(via, x) ==
    CASE via = "plain" -> x
      [] via = "isoformat" -> isoformat(x)                      \* x.isoformat()
      [] via = "value" -> EnumValue(x)                          \* x.value
      [] via = "join" -> Join(",", x)                           \* ",".join(x)
      [] via = "isoformat_if" -> IF Truthy(x) THEN isoformat(x) ELSE None
                                              \* x.isoformat() if x else None
      [] via = "value_if" -> IF Truthy(x) THEN EnumValue(x) ELSE None
                                              \* x.value if x else None
      [] via = "or_none" -> IF Truthy(x) THEN x ELSE None       \* x or None

\* as Statement, with the inline `is not None` tests turned into truth tests
Statement_truthy(params, st, x) ==
    CASE st.how = "always" -> DictSet(params, st.key, x)
      [] st.how = "not_none" ->
             IF Truthy(x) THEN DictSet(params, st.key, Via(st.via, x)) ELSE params
      [] st.how = "truthy" ->
             IF Truthy(x) THEN DictSet(params, st.key, x) ELSE params
      [] st.how = "_set" -> _set(params, st.key, Via(st.via, x))

\* as Statement, with the entries of the dict literal stored only when their
\* value is truthy
Statement_always_truthy(params, st, x) ==
    CASE st.how = "always" ->
             IF Truthy(x) THEN DictSet(params, st.key, x) ELSE params
      [] st.how = "not_none" ->
             IF x # None THEN DictSet(params, st.key, Via(st.via, x)) ELSE params
      [] st.how = "truthy" ->
             IF Truthy(x) THEN DictSet(params, st.key, x) ELSE params
      [] st.how = "_set" -> _set(params, st.key, Via(st.via, x))

\* params after one statement, x being the value of the statement's argument
Statement(params, st, x) ==
    CASE st.how = "always" -> DictSet(params, st.key, x)
      [] st.how = "not_none" ->
             IF x # None THEN DictSet(params, st.key, Via(st.via, x)) ELSE params
      [] st.how = "truthy" ->
             IF Truthy(x) THEN DictSet(params, st.key, x) ELSE params
      [] st.how = "_set" -> _set(params, st.key, Via(st.via, x))

\* params after the statements, run in order, on the keyword arguments kw.
\* Each statement stores one entry or none; a dict keeps a key where it was
\* first stored, with the value stored last.
BuildParams(params, statements, kw) ==
    LET One(i) == Statement(<< >>, statements[i], kw[statements[i].arg])
        stored == SelectSeq([i \in 1..Len(statements) |-> One(i)],
                            LAMBDA d : Len(d) > 0)
        writes == params \o [j \in 1..Len(stored) |-> stored[j][1]]
        first == SelectSeq([j \in 1..Len(writes) |-> j],
                           LAMBDA j : \A k \in 1..(j - 1) : writes[k][1] # writes[j][1])
        Last(key) == CHOOSE j \in 1..Len(writes) :
                         /\ writes[j][1] = key
                         /\ \A k \in (j + 1)..Len(writes) : writes[k][1] # key
    IN  [p \in 1..Len(first) |->
            <<writes[first[p]][1], writes[Last(writes[first[p]][1])][2]>>]

\* a parameter of a signature: <<name, default, the values a caller passes>>
Required == [t |-> "required"]

-----------------------------------------------------------------------------
(* Typed models.  py_ns/models is not part of the sources at hand: a model *)
(* validates a JSON object that has the model's required fields, and its   *)
(* nested models validate in turn.                                         *)

RequiredFields(cls) ==
    CASE cls = "Disruption" -> {"id", "isActive", "title", "timespans"}
      [] cls = "Calamity" -> {"id", "isActive", "title", "priority"}
      [] cls = "PersonalDisruption" -> {"id"}
      [] cls \in {"StationsV2Response", "StationsV3Response", "StationV3Response",
                  "StationResponse", "RepresentationResponseDeparturesPayload",
                  "RepresentationResponseArrivalsPayload",
                  "RepresentationResponseJourney",
                  "RepresentationResponsePricesResponseV3",
                  "RepresentationResponsePrice"} -> {"payload"}
      [] cls = "StationV2" -> {"UICCode", "code"}
      [] cls = "StationV3" -> {"id", "names"}
      [] cls = "Station" -> {"code"}
      [] cls = "DeparturesPayload" -> {"departures"}
      [] cls = "ArrivalsPayload" -> {"arrivals"}
      [] cls \in {"Departure", "Arrival"} -> {"name"}
      [] cls = "Journey" -> {"stops"}
      [] cls = "TravelAdvice" -> {"trips"}
      [] cls = "Trip" -> {"uid", "legs"}
      [] cls = "PricesResponseV3" -> {"prices"}
      [] cls = "Price" -> {"totalPriceInCents"}
      [] cls = "CalamitiesResponse" -> {"meldingen"}
      [] OTHER -> {}

\* the fields of a model that hold models: <<field, "model" or "list", class>>
NestedFields(cls) ==
    CASE cls = "StationsV2Response" -> {<<"payload", "list", "StationV2">>}
      [] cls = "StationsV3Response" -> {<<"payload", "list", "StationV3">>}
      [] cls = "StationV3Response" -> {<<"payload", "model", "StationV3">>}
      [] cls = "StationResponse" -> {<<"payload", "list", "Station">>}
      [] cls = "RepresentationResponseDeparturesPayload" ->
             {<<"payload", "model", "DeparturesPayload">>}
      [] cls = "DeparturesPayload" -> {<<"departures", "list", "Departure">>}
      [] cls = "RepresentationResponseArrivalsPayload" ->
             {<<"payload", "model", "ArrivalsPayload">>}
      [] cls = "ArrivalsPayload" -> {<<"arrivals", "list", "Arrival">>}
      [] cls = "RepresentationResponseJourney" -> {<<"payload", "model", "Journey">>}
      [] cls = "TravelAdvice" -> {<<"trips", "list", "Trip">>}
      [] cls = "RepresentationResponsePricesResponseV3" ->
             {<<"payload", "model", "PricesResponseV3">>}
      [] cls = "RepresentationResponsePrice" -> {<<"payload", "model", "Price">>}
      [] OTHER -> {}

Fits(cls, data) ==
    /\ data.t = "dict"
    /\ RequiredFields(cls) \subseteq DictKeys(data.items)

RECURSIVE Validates(_, _)
Validates(cls, data) ==
    /\ Fits(cls, data)
    /\ \A n \in NestedFields(cls) :
           DictHas(data.items, n[1]) =>
               LET v == DictGet(data.items, n[1], None)
               IN  IF n[2] = "model" THEN Validates(n[3], v)
                   ELSE /\ v.t = "list"
                        /\ \A i \in 1..Len(v.items) : Validates(n[3], v.items[i])

\* cls.model_validate(data)
model_validate(cls, data) ==
    IF Validates(cls, data) THEN Return(Model(cls, data))
    ELSE RaiseOther("ValidationError")

\* model.field, for a field that holds a model or a list of models
Attr(model, field) ==
    LET n == CHOOSE m \in NestedFields(model.cls) : m[1] = field
        v == DictGet(model.data.items, field, None)
    IN  IF n[2] = "model" THEN Model(n[3], v)
        ELSE Lst([i \in 1..Len(v.items) |-> Model(n[3], v.items[i])])

\* cls.model_validate(data).payload
ValidatedPayload(cls, data) ==
    LET r == model_validate(cls, data)
    IN  IF r.kind = "raise" THEN r ELSE Return(Attr(r.value, "payload"))

\* `for item in data`: what the loop visits, or the TypeError of iter(data)
Iterable(data) == data.t \in {"list", "dict", "str"}
IterItems(data) ==
    CASE data.t = "list" -> data.items
      [] data.t = "dict" -> [i \in 1..Len(data.items) |-> Str(data.items[i][1])]
      [] data.t = "str" -> IF data.s = "" THEN << >> ELSE << Str(data.s) >>

RECURSIVE Comprehend(_, _, _)
\* [Parse(item) for item in data]: the first item that raises ends the loop
Comprehend(Parse(_), items, done) ==
    IF Len(items) = 0 THEN Return(Lst(done))
    ELSE LET one == Parse(items[1])
         IN  IF one.kind = "raise" THEN one
             ELSE Comprehend(Parse, Tail(items), Append(done, one.value))

ListOf(Parse(_), data) ==
    IF Iterable(data) THEN Comprehend(Parse, IterItems(data), << >>)
    ELSE RaiseOther("TypeError")

-----------------------------------------------------------------------------
(* py_ns/api/disruptions.py                                                *)

Disruptions_BASE_URL == "https://gateway.apiportal.ns.nl/disruptions"

\* as _parse_item, choosing the model by the fields the item has
_parse_item_by_shape(item) ==
    IF item.t # "dict" THEN RaiseOther("AttributeError")
    ELSE IF Fits("Calamity", item)
         THEN model_validate("Calamity", item)
         ELSE model_validate("Disruption", item)

_parse_item(item) ==
    IF item.t # "dict" THEN RaiseOther("AttributeError")
    ELSE IF DictGet(item.items, "type", None) = Str("CALAMITY")
         THEN model_validate("Calamity", item)
         ELSE model_validate("Disruption", item)

\* `headers = None; if language is not None: headers = {"Accept-Language": language}`
AcceptLanguage(language) ==
    IF language # None THEN Obj(<< <<"Accept-Language", language>> >>) ELSE None

DisruptionsAPI_list_statements ==
    << IfNotNone("isActive", "is_active", "plain"),
       IfNotNone("type", "disruption_type", "value") >>

DisruptionsAPI_list_request(kw) ==
    [method |-> "GET",
     url |-> Str(Disruptions_BASE_URL \o "/v3"),
     params |-> Obj(BuildParams(<< >>, DisruptionsAPI_list_statements, kw)),
     headers |-> AcceptLanguage(kw["language"])]

\* as DisruptionsAPI_list_parse, keeping what parsed and skipping the rest
DisruptionsAPI_list_parse_lenient(data) ==
    IF ~Iterable(data) THEN RaiseOther("TypeError")
    ELSE LET items == IterItems(data)
             good == SelectSeq(items, LAMBDA it : _parse_item(it).kind = "return")
         IN  Return(Lst([i \in 1..Len(good) |-> _parse_item(good[i]).value]))

\* as DisruptionsAPI_list_parse, building the result back to front
DisruptionsAPI_list_parse_reversed(data) ==
    LET r == ListOf(_parse_item, data)
    IN  IF r.kind = "raise" THEN r
        ELSE Return(Lst([i \in 1..Len(r.value.items) |->
                            r.value.items[Len(r.value.items) + 1 - i]]))

\* `return [_parse_item(item) for item in data]`
DisruptionsAPI_list_parse(data) == ListOf(_parse_item, data)

DisruptionsAPI_get_request(kw) ==
    [method |-> "GET",
     url |-> Str(Disruptions_BASE_URL \o "/v3/" \o EnumValue(kw["disruption_type"]).s
                 \o "/" \o kw["disruption_id"].s),
     params |-> None,
     headers |-> AcceptLanguage(kw["language"])]

\* as DisruptionsAPI_get_parse, without _parse_item
DisruptionsAPI_get_parse_raw(data) == Return(data)

DisruptionsAPI_get_parse(data) == _parse_item(data)

DisruptionsAPI_list_for_station_request(kw) ==
    [method |-> "GET",
     url |-> Str(Disruptions_BASE_URL \o "/v3/station/" \o kw["station_code"].s),
     params |-> None,
     headers |-> AcceptLanguage(kw["language"])]

DisruptionsAPI_list_for_station_parse(data) == ListOf(_parse_item, data)

DisruptionsAPI_list_personal_request(kw) ==
    [method |-> "GET",
     url |-> Str(Disruptions_BASE_URL \o "/v1/personal-disruptions"),
     params |-> None,
     headers |-> Obj(<< <<"x-ns-push-id", kw["push_id"]>> >>)]

PersonalDisruption_validate(item) == model_validate("PersonalDisruption", item)

DisruptionsAPI_list_personal_parse(data) == ListOf(PersonalDisruption_validate, data)

\* saved_trip.model_dump(by_alias=True)
model_dump(model) == model.data

DisruptionsAPI_sync_saved_trips_request(kw) ==
    [method |-> "POST",
     url |-> Str(Disruptions_BASE_URL \o "/v1/personal-disruptions/sync/saved-trips"),
     json |-> model_dump(kw["saved_trip"]),
     headers |-> Obj(<< <<"x-api-key", kw["api_key"]>> >>)]

\* the result of the post is dropped: the method returns None
DisruptionsAPI_sync_saved_trips_parse(data) == Return(None)

-----------------------------------------------------------------------------
(* py_ns/api/stations.py                                                   *)

Stations_BASE_URL == "https://gateway.apiportal.ns.nl/nsapp-stations"

StationsAPI_list_v2_statements ==
    << IfNotNone("q", "query", "plain"),
       IfNotNone("countryCodes", "country_codes", "plain"),
       IfNotNone("includeNonPlannableStations", "include_non_plannable", "plain"),
       IfNotNone("limit", "limit", "plain") >>

\* as StationsAPI_list_v2_request, with a params dict that outlives the call:
\* the keys of the request before are still in it
StationsAPI_list_v2_request_shared_params(kw) ==
    [method |-> "GET",
     url |-> Str(Stations_BASE_URL \o "/v2"),
     params |-> Obj(BuildParams(IF request = NoRequest \/ request.params = None
                                THEN << >> ELSE request.params.items,
                                StationsAPI_list_v2_statements, kw)),
     headers |-> None]

StationsAPI_list_v2_request(kw) ==
    [method |-> "GET",
     url |-> Str(Stations_BASE_URL \o "/v2"),
     params |-> Obj(BuildParams(<< >>, StationsAPI_list_v2_statements, kw)),
     headers |-> None]

StationsAPI_list_v2_parse(data) == ValidatedPayload("StationsV2Response", data)

StationsAPI_list_nearest_v2_statements ==
    << Always("lat", "lat"),
       Always("lng", "lng"),
       IfNotNone("limit", "limit", "plain"),
       IfNotNone("includeNonPlannableStations", "include_non_plannable", "plain") >>

StationsAPI_list_nearest_v2_request(kw) ==
    [method |-> "GET",
     url |-> Str(Stations_BASE_URL \o "/v2/nearest"),
     params |-> Obj(BuildParams(<< >>, StationsAPI_list_nearest_v2_statements, kw)),
     headers |-> None]

StationsAPI_list_nearest_v2_parse(data) == ValidatedPayload("StationsV2Response", data)

StationsAPI_list_v3_statements ==
    << IfNotNone("q", "query", "plain"),
       IfNotNone("countryCodes", "country_codes", "plain"),
       IfNotNone("includeNonPlannableStations", "include_non_plannable", "plain"),
       IfNotNone("limit", "limit", "plain") >>

StationsAPI_list_v3_request(kw) ==
    [method |-> "GET",
     url |-> Str(Stations_BASE_URL \o "/v3"),
     params |-> Obj(BuildParams(<< >>, StationsAPI_list_v3_statements, kw)),
     headers |-> None]

StationsAPI_list_v3_parse(data) == ValidatedPayload("StationsV3Response", data)

StationsAPI_list_nearest_v3_statements ==
    << Always("lat", "lat"),
       Always("lng", "lng"),
       IfNotNone("limit", "limit", "plain"),
       IfNotNone("includeNonPlannableStations", "include_non_plannable", "plain") >>

StationsAPI_list_nearest_v3_request(kw) ==
    [method |-> "GET",
     url |-> Str(Stations_BASE_URL \o "/v3/nearest"),
     params |-> Obj(BuildParams(<< >>, StationsAPI_list_nearest_v3_statements, kw)),
     headers |-> None]

StationsAPI_list_nearest_v3_parse(data) == ValidatedPayload("StationsV3Response", data)

StationsAPI_get_statements ==
    << Always("uicCode", "uic_code"),
       IfNotNone("uicCdCode", "uic_cd_code", "plain") >>

StationsAPI_get_request(kw) ==
    [method |-> "GET",
     url |-> Str(Stations_BASE_URL \o "/v1/station"),
     params |-> Obj(BuildParams(<< >>, StationsAPI_get_statements, kw)),
     headers |-> None]

StationsAPI_get_parse(data) == ValidatedPayload("StationV3Response", data)

-----------------------------------------------------------------------------
(* py_ns/api/travel.py                                                     *)

Travel_BASE_URL == "https://gateway.apiportal.ns.nl/reisinformatie-api"

\* warnings.warn(message, DeprecationWarning, stacklevel=2)
Warn(message) == [category |-> "DeprecationWarning", message |-> message]

\* as _DISRUPTIONS_DEPRECATION, a template without {replacement}
_DISRUPTIONS_DEPRECATION_no_replacement(method, replacement) ==
    method \o " is deprecated by NS. Use the "
    \o "dedicated Disruptions API (https://gateway.apiportal.ns.nl/disruptions)."

\* _DISRUPTIONS_DEPRECATION.format(method=..., replacement=...)
_DISRUPTIONS_DEPRECATION(method, replacement) ==
    method \o " is deprecated by NS. Use " \o replacement \o " instead, which uses the "
    \o "dedicated Disruptions API (https://gateway.apiportal.ns.nl/disruptions)."

\* _STATIONS_DEPRECATION.format(method=...)
_STATIONS_DEPRECATION(method) ==
    method \o " is deprecated by NS. Use the dedicated Stations API at "
    \o "https://gateway.apiportal.ns.nl/nsapp-stations instead."

TravelAPI_get_departures_statements ==
    << Always("maxJourneys", "max_journeys"),
       IfTruthy("station", "station"),
       IfNotNone("uicCode", "uic_code", "plain"),
       IfNotNone("dateTime", "date_time", "isoformat"),
       IfNotNone("lang", "language", "plain") >>

TravelAPI_get_departures_request(kw) ==
    [method |-> "GET",
     url |-> Str(Travel_BASE_URL \o "/api/v2/departures"),
     params |-> Obj(BuildParams(<< >>, TravelAPI_get_departures_statements, kw)),
     headers |-> None]

TravelAPI_get_departures_parse(data) ==
    LET r == model_validate("RepresentationResponseDeparturesPayload", data)
    IN  IF r.kind = "raise" THEN r
        ELSE Return(Attr(Attr(r.value, "payload"), "departures"))

TravelAPI_get_arrivals_statements ==
    << Always("maxJourneys", "max_journeys"),
       IfTruthy("station", "station"),
       IfNotNone("uicCode", "uic_code", "plain"),
       IfNotNone("dateTime", "date_time", "isoformat"),
       IfNotNone("lang", "language", "plain") >>

TravelAPI_get_arrivals_request(kw) ==
    [method |-> "GET",
     url |-> Str(Travel_BASE_URL \o "/api/v2/arrivals"),
     params |-> Obj(BuildParams(<< >>, TravelAPI_get_arrivals_statements, kw)),
     headers |-> None]

TravelAPI_get_arrivals_parse(data) ==
    LET r == model_validate("RepresentationResponseArrivalsPayload", data)
    IN  IF r.kind = "raise" THEN r
        ELSE Return(Attr(Attr(r.value, "payload"), "arrivals"))

TravelAPI_get_journey_statements ==
    << Always("omitCrowdForecast", "omit_crowd_forecast"),
       IfNotNone("train", "train", "plain"),
       IfNotNone("id", "journey_id", "plain"),
       IfNotNone("dateTime", "date_time", "isoformat"),
       IfNotNone("departureUicCode", "departure_uic_code", "plain"),
       IfNotNone("transferUicCode", "transfer_uic_code", "plain"),
       IfNotNone("arrivalUicCode", "arrival_uic_code", "plain") >>

TravelAPI_get_journey_request(kw) ==
    [method |-> "GET",
     url |-> Str(Travel_BASE_URL \o "/api/v2/journey"),
     params |-> Obj(BuildParams(<< >>, TravelAPI_get_journey_statements, kw)),
     headers |-> None]

TravelAPI_get_journey_parse(data) ==
    ValidatedPayload("RepresentationResponseJourney", data)

\* the deprecated parameters of plan_trip, in the order of their warnings
TravelAPI_plan_trip_deprecated ==
    << <<"departure",
         "The 'departure' parameter is deprecated. Use 'search_for_arrival' instead.">>,
       <<"shorter_change",
         "The 'shorter_change' parameter is deprecated and has no effect. "
         \o "NS removed this functionality.">>,
       <<"minimal_change_time",
         "The 'minimal_change_time' parameter is deprecated. "
         \o "Use 'add_change_time' instead.">>,
       <<"origin_accessible",
         "The 'origin_accessible' parameter is deprecated. "
         \o "Use 'travel_assistance' instead.">>,
       <<"travel_assistance_transfer_time",
         "The 'travel_assistance_transfer_time' parameter is deprecated. "
         \o "Use 'add_change_time' instead.">> >>

\* as TravelAPI_plan_trip_notices, with `if <parameter>:` for `is not None`
TravelAPI_plan_trip_notices_truthy(kw) ==
    LET used == SelectSeq(TravelAPI_plan_trip_deprecated, LAMBDA d : Truthy(kw[d[1]]))
    IN  [i \in 1..Len(used) |-> Warn(used[i][2])]

\* as TravelAPI_plan_trip_notices, with one warning for whatever is deprecated
TravelAPI_plan_trip_notices_aggregate(kw) ==
    LET used == SelectSeq(TravelAPI_plan_trip_deprecated, LAMBDA d : kw[d[1]] # None)
    IN  IF Len(used) = 0 THEN << >> ELSE << Warn(used[1][2]) >>

\* `if <parameter> is not None: warnings.warn(...)`, one after the other
TravelAPI_plan_trip_notices(kw) ==
    LET used == SelectSeq(TravelAPI_plan_trip_deprecated, LAMBDA d : kw[d[1]] # None)
    IN  [i \in 1..Len(used) |-> Warn(used[i][2])]

TravelAPI_plan_trip_statements ==
    << ViaSet("fromStation", "from_station", "plain"),
       ViaSet("toStation", "to_station", "plain"),
       ViaSet("originUicCode", "origin_uic_code", "plain"),
       ViaSet("originLat", "origin_lat", "plain"),
       ViaSet("originLng", "origin_lng", "plain"),
       ViaSet("originName", "origin_name", "plain"),
       ViaSet("destinationUicCode", "destination_uic_code", "plain"),
       ViaSet("destinationLat", "destination_lat", "plain"),
       ViaSet("destinationLng", "destination_lng", "plain"),
       ViaSet("destinationName", "destination_name", "plain"),
       ViaSet("viaStation", "via_station", "plain"),
       ViaSet("viaUicCode", "via_uic_code", "plain"),
       ViaSet("viaLat", "via_lat", "plain"),
       ViaSet("viaLng", "via_lng", "plain"),
       ViaSet("viaWaitTime", "via_wait_time", "plain"),
       ViaSet("dateTime", "date_time", "isoformat_if"),
       ViaSet("searchForArrival", "search_for_arrival", "or_none"),
       ViaSet("lang", "language", "plain"),
       ViaSet("context", "context", "plain"),
       ViaSet("addChangeTime", "add_change_time", "plain"),
       ViaSet("passing", "passing", "plain"),
       ViaSet("localTrainsOnly", "local_trains_only", "plain"),
       ViaSet("excludeHighSpeedTrains", "exclude_high_speed_trains", "plain"),
       ViaSet("excludeTrainsWithReservationRequired", "exclude_trains_with_reservation_required", "plain"),
       ViaSet("travelRequestType", "travel_request_type", "plain"),
       ViaSet("filterTransportMode", "filter_transport_mode", "plain"),
       ViaSet("disabledTransportModalities", "disabled_transport_modalities", "plain"),
       ViaSet("originWalk", "origin_walk", "plain"),
       ViaSet("originBike", "origin_bike", "plain"),
       ViaSet("originCar", "origin_car", "plain"),
       ViaSet("destinationWalk", "destination_walk", "plain"),
       ViaSet("destinationBike", "destination_bike", "plain"),
       ViaSet("destinationCar", "destination_car", "plain"),
       ViaSet("firstMileModality", "first_mile_modality", "plain"),
       ViaSet("lastMileModality", "last_mile_modality", "plain"),
       ViaSet("entireTripModality", "entire_trip_modality", "plain"),
       ViaSet("travelAssistance", "travel_assistance", "plain"),
       ViaSet("searchForAccessibleTrip", "search_for_accessible_trip", "plain"),
       ViaSet("accessibilityEquipment1", "accessibility_equipment1", "plain"),
       ViaSet("accessibilityEquipment2", "accessibility_equipment2", "plain"),
       ViaSet("product", "product", "plain"),
       ViaSet("discount", "discount", "plain"),
       ViaSet("travelClass", "travel_class", "plain"),
       ViaSet("nsr", "nsr", "plain"),
       ViaSet("departure", "departure", "plain"),
       ViaSet("shorterChange", "shorter_change", "plain"),
       ViaSet("minimalChangeTime", "minimal_change_time", "plain"),
       ViaSet("originAccessible", "origin_accessible", "plain"),
       ViaSet("travelAssistanceTransferTime", "travel_assistance_transfer_time", "plain") >>

\* `headers = None; if authorization is not None: headers = {"Authorization": authorization}`
Authorization(authorization) ==
    IF authorization # None THEN Obj(<< <<"Authorization", authorization>> >>)
    ELSE None

\* as TravelAPI_plan_trip_request, leaving the coordinates of the origin out
\* when its station code is given
TravelAPI_plan_trip_request_station_wins(kw) ==
    [method |-> "GET",
     url |-> Str(Travel_BASE_URL \o "/api/v3/trips"),
     params |-> Obj(SelectSeq(BuildParams(<< >>, TravelAPI_plan_trip_statements, kw),
                              LAMBDA p : kw["from_station"] = None
                                         \/ p[1] \notin {"originLat", "originLng"})),
     headers |-> Authorization(kw["authorization"])]

TravelAPI_plan_trip_request(kw) ==
    [method |-> "GET",
     url |-> Str(Travel_BASE_URL \o "/api/v3/trips"),
     params |-> Obj(BuildParams(<< >>, TravelAPI_plan_trip_statements, kw)),
     headers |-> Authorization(kw["authorization"])]

TravelAPI_plan_trip_parse(data) == model_validate("TravelAdvice", data)

TravelAPI_get_trip_notices(kw) ==
    IF kw["source_ctx_recon"] # None
    THEN << Warn("The 'source_ctx_recon' parameter is deprecated. "
                 \o "Use the sourceCtxRecon field in the Trip response instead.") >>
    ELSE << >>

\* as WithLang, with `headers = {"lang": language}`: what was in headers is lost
WithLang_alone(headers, language) ==
    IF language # None THEN Obj(<< <<"lang", language>> >>) ELSE headers

\* as WithLang, under the header name the disruptions endpoints use
WithLang_accept_language(headers, language) ==
    IF language # None
    THEN Obj(DictSet(IF Truthy(headers) THEN headers.items ELSE << >>,
                     "Accept-Language", language))
    ELSE headers

\* `if language is not None: headers = {**(headers or {}), "lang": language}`
WithLang(headers, language) ==
    IF language # None
    THEN Obj(DictSet(IF Truthy(headers) THEN headers.items ELSE << >>,
                     "lang", language))
    ELSE headers

TravelAPI_get_trip_statements ==
    << Always("ctxRecon", "ctx_recon"),
       Always("travelRequestType", "travel_request_type"),
       ViaSet("date", "date", "isoformat_if"),
       ViaSet("product", "product", "plain"),
       ViaSet("discount", "discount", "plain"),
       ViaSet("travelClass", "travel_class", "plain"),
       ViaSet("nsr", "nsr", "plain"),
       ViaSet("sourceCtxRecon", "source_ctx_recon", "plain") >>

TravelAPI_get_trip_request(kw) ==
    [method |-> "GET",
     url |-> Str(Travel_BASE_URL \o "/api/v3/trips/trip"),
     params |-> Obj(BuildParams(<< >>, TravelAPI_get_trip_statements, kw)),
     headers |-> WithLang(Authorization(kw["authorization"]), kw["language"])]

TravelAPI_get_trip_parse(data) == model_validate("Trip", data)

TravelAPI_get_booked_trip_statements ==
    << Always("ctxRecon", "ctx_recon"),
       Always("bookingNumber", "booking_number"),
       Always("originalTripRequestId", "original_trip_request_id"),
       ViaSet("accessibilityEquipment1", "accessibility_equipment1", "plain"),
       ViaSet("accessibilityEquipment2", "accessibility_equipment2", "plain") >>

TravelAPI_get_booked_trip_request(kw) ==
    [method |-> "GET",
     url |-> Str(Travel_BASE_URL \o "/api/v3/trips/booked-trip"),
     params |-> Obj(BuildParams(<< >>, TravelAPI_get_booked_trip_statements, kw)),
     headers |-> LET h == << <<"Authorization", kw["authorization"]>> >>
                 IN  IF kw["language"] # None
                     THEN Obj(DictSet(h, "lang", kw["language"]))
                     ELSE Obj(h)]

TravelAPI_get_booked_trip_parse(data) == model_validate("Trip", data)

TravelAPI_get_price_statements ==
    << Always("isJointJourney", "is_joint_journey"),
       Always("adults", "adults"),
       Always("children", "children"),
       ViaSet("fromStation", "from_station", "plain"),
       ViaSet("toStation", "to_station", "plain"),
       ViaSet("travelClass", "travel_class", "value_if"),
       ViaSet("travelType", "travel_type", "plain"),
       ViaSet("routeId", "route_id", "plain"),
       ViaSet("plannedDepartureTime", "planned_departure_time", "isoformat_if"),
       ViaSet("plannedArrivalTime", "planned_arrival_time", "isoformat_if") >>

TravelAPI_get_price_request(kw) ==
    [method |-> "GET",
     url |-> Str(Travel_BASE_URL \o "/api/v3/price"),
     params |-> Obj(BuildParams(<< >>, TravelAPI_get_price_statements, kw)),
     headers |-> None]

TravelAPI_get_price_parse(data) ==
    ValidatedPayload("RepresentationResponsePricesResponseV3", data)

TravelAPI_get_price_v2_statements ==
    << Always("isJointJourney", "is_joint_journey"),
       Always("adults", "adults"),
       Always("children", "children"),
       ViaSet("fromStation", "from_station", "plain"),
       ViaSet("toStation", "to_station", "plain"),
       ViaSet("travelClass", "travel_class", "plain"),
       ViaSet("travelType", "travel_type", "plain"),
       ViaSet("routeId", "route_id", "plain"),
       ViaSet("plannedFromTime", "planned_from_time", "isoformat_if"),
       ViaSet("plannedArrivalTime", "planned_arrival_time", "isoformat_if") >>

TravelAPI_get_price_v2_request(kw) ==
    [method |-> "GET",
     url |-> Str(Travel_BASE_URL \o "/api/v2/price"),
     params |-> Obj(BuildParams(<< >>, TravelAPI_get_price_v2_statements, kw)),
     headers |-> None]

TravelAPI_get_price_v2_parse(data) ==
    ValidatedPayload("RepresentationResponsePrice", data)

\* as TravelAPI_get_stations_notices, the warning forgotten
TravelAPI_get_stations_notices_none(kw) == << >>

TravelAPI_get_stations_notices(kw) == << Warn(_STATIONS_DEPRECATION("get_stations()")) >>

TravelAPI_get_stations_statements ==
    << Always("limit", "limit"),
       IfNotNone("q", "query", "plain"),
       IfNotNone("countryCodes", "country_codes", "join") >>

TravelAPI_get_stations_request(kw) ==
    [method |-> "GET",
     url |-> Str(Travel_BASE_URL \o "/api/v2/stations"),
     params |-> Obj(BuildParams(<< >>, TravelAPI_get_stations_statements, kw)),
     headers |-> None]

TravelAPI_get_stations_parse(data) == ValidatedPayload("StationResponse", data)

TravelAPI_get_nearest_stations_notices(kw) ==
    << Warn(_STATIONS_DEPRECATION("get_nearest_stations()")) >>

TravelAPI_get_nearest_stations_statements ==
    << Always("lat", "lat"),
       Always("lng", "lng"),
       Always("limit", "limit") >>

TravelAPI_get_nearest_stations_request(kw) ==
    [method |-> "GET",
     url |-> Str(Travel_BASE_URL \o "/api/v2/stations/nearest"),
     params |-> Obj(BuildParams(<< >>, TravelAPI_get_nearest_stations_statements, kw)),
     headers |-> None]

TravelAPI_get_nearest_stations_parse(data) == ValidatedPayload("StationResponse", data)

TravelAPI_get_calamities_notices(kw) ==
    << Warn(_DISRUPTIONS_DEPRECATION(
                "get_calamities()",
                "client.disruptions.list(disruption_type=DisruptionType.calamity)")) >>

TravelAPI_get_calamities_statements ==
    << ViaSet("lang", "language", "plain") >>

TravelAPI_get_calamities_request(kw) ==
    [method |-> "GET",
     url |-> Str(Travel_BASE_URL \o "/api/v1/calamities"),
     params |-> Obj(BuildParams(<< >>, TravelAPI_get_calamities_statements, kw)),
     headers |-> None]

TravelAPI_get_calamities_parse(data) == model_validate("CalamitiesResponse", data)

TravelAPI_list_disruptions_notices(kw) ==
    << Warn(_DISRUPTIONS_DEPRECATION("list_disruptions()",
                                     "client.disruptions.list()")) >>

TravelAPI_list_disruptions_statements ==
    << Always("isActive", "is_active"),
       IfNotNone("type", "disruption_type", "plain") >>

TravelAPI_list_disruptions_request(kw) ==
    [method |-> "GET",
     url |-> Str(Travel_BASE_URL \o "/api/v3/disruptions"),
     params |-> Obj(BuildParams(<< >>, TravelAPI_list_disruptions_statements, kw)),
     headers |-> AcceptLanguage(kw["language"])]

\* as TravelAPI_list_disruptions_parse, the `return` lost after the warning
TravelAPI_list_disruptions_parse_none(data) == Return(None)

\* `return self._http.get(...)`: what the transport returned, as it is
TravelAPI_list_disruptions_parse(data) == Return(data)

TravelAPI_list_station_disruptions_notices(kw) ==
    << Warn(_DISRUPTIONS_DEPRECATION("list_station_disruptions()",
                                     "client.disruptions.list_for_station()")) >>

TravelAPI_list_station_disruptions_request(kw) ==
    [method |-> "GET",
     url |-> Str(Travel_BASE_URL \o "/api/v3/disruptions/station/" \o kw["station_code"].s),
     params |-> None,
     headers |-> None]

TravelAPI_list_station_disruptions_parse(data) == Return(data)

TravelAPI_get_disruption_notices(kw) ==
    << Warn(_DISRUPTIONS_DEPRECATION("get_disruption()",
                                     "client.disruptions.get()")) >>

TravelAPI_get_disruption_request(kw) ==
    [method |-> "GET",
     url |-> Str(Travel_BASE_URL \o "/api/v3/disruptions/" \o kw["disruption_type"].s
                 \o "/" \o kw["disruption_id"].s),
     params |-> None,
     headers |-> None]

TravelAPI_get_disruption_parse(data) == Return(data)

-----------------------------------------------------------------------------
(* The caller and the server: what is drawn in Init                        *)

MaxCloses == 2

ApiKeys == {"test-key-abc", "other-key"}

TEST_URL == "https://example.com/api/test"

Statuses == {100, 199, 200, 201, 204, 299, 300, 301, 399, 400, 401, 402, 403,
             404, 405, 428, 429, 430, 499, 500, 502, 503, 599}

MessageBodies ==
    { Raw(""),
      Raw("Gateway timeout"),
      Json(Obj(<< <<"message", Str("Station not found")>> >>)),
      Json(Obj(<< <<"error", Str("bad")>> >>)),
      Json(Obj(<< <<"error", Str("bad")>>, <<"message", None>> >>)),
      Json(Obj(<< >>)),
      Json(Lst(<< >>)),
      Json(Lst(<< Obj(<< <<"message", Str("in a list")>> >>) >>)),
      Json(Str("message")),
      Json(None) }

Responses(statuses, bodies) ==
    {[status_code |-> st, content |-> b] : st \in statuses, b \in bodies}

\* the headers= argument of a call on the transport itself
CallerHeaders ==
    { None,
      Obj(<< <<"Accept-Language", Str("nl")>> >>),
      Obj(<< <<"Authorization", Str("Bearer tok")>> >>),
      Obj(<< <<"Authorization", Str("Bearer tok")>>, <<"lang", Str("en")>> >>),
      Obj(<< <<"x-ns-push-id", Str("push-1")>> >>),
      Obj(<< <<"x-api-key", Str("sync-api-key")>> >>),
      Obj(<< <<"ocp-apim-subscription-key", Str("callers-own")>> >>) }

CallerParams == {None, Obj(<< <<"station", Str("ASD")>>, <<"maxJourneys", Num(10)>> >>)}

CallerJson == {None, Obj(<< <<"id", Num(42)>> >>)}

\* the responses callers meet most often
FewResponses ==
    { [status_code |-> 204, content |-> Raw("")],
      [status_code |-> 200, content |-> Json(Obj(<< <<"id", Num(42)>> >>))],
      [status_code |-> 404, content |-> Json(Obj(<< <<"message", Str("Station not found")>> >>))] }

\* every response to calls without headers, every headers= argument with a
\* few responses
TransportExchanges ==
    {<<None, r>> : r \in Responses(Statuses, MessageBodies)}
    \cup {<<h, r>> : h \in CallerHeaders, r \in FewResponses}

TransportCalls ==
    {[op |-> "HttpTransport.get",
      kw |-> [url |-> Str(TEST_URL), params |-> p, headers |-> x[1]],
      resp |-> x[2]] :
        p \in CallerParams, x \in TransportExchanges}
    \cup
    {[op |-> "HttpTransport.post",
      kw |-> [url |-> Str(TEST_URL), json |-> j, headers |-> x[1]],
      resp |-> x[2]] :
        j \in CallerJson, x \in TransportExchanges}

\* how many optional arguments one call supplies at most
MaxSupplied == 1
\* how many items a list body has at most
MaxItems == 2

BoolS == {Bool(TRUE), Bool(FALSE)}
IntS == {Num(0), Num(5)}
FloatS == {Flt(0), Flt(52)}
StrS == {Str("ASD")}
LangS == {Str("nl")}
DateS == {DateTime(2024, 5, 1, 9, 30)}

\* py_ns.models.disruptions.DisruptionType
DisruptionType ==
    { Enum("DisruptionType", "disruption", "DISRUPTION"),
      Enum("DisruptionType", "maintenance", "MAINTENANCE"),
      Enum("DisruptionType", "calamity", "CALAMITY") }

RECURSIVE SubsetsUpTo(_, _)
SubsetsUpTo(S, k) ==
    IF k = 0 THEN {{}}
    ELSE LET prev == SubsetsUpTo(S, k - 1)
         IN  prev \cup {T \cup {x} : T \in prev, x \in S}

RECURSIVE Assignments(_, _)
\* every way to pass the parameters I of a signature
Assignments(sig, I) ==
    IF I = {} THEN {[n \in {} |-> None]}
    ELSE LET i == CHOOSE j \in I : TRUE
         IN  {(sig[i][1] :> v) @@ f : v \in sig[i][3], f \in Assignments(sig, I \ {i})}

\* the calls of a signature that pass every required parameter and the
\* optional parameters `optional`; a parameter not passed has its default
Bind(sig, optional) ==
    LET names == {sig[i][1] : i \in 1..Len(sig)}
        req == {i \in 1..Len(sig) : sig[i][2] = Required}
        Default(n) == sig[CHOOSE i \in 1..Len(sig) : sig[i][1] = n][2]
    IN  {[given |-> DOMAIN f,
          kw |-> [n \in names |-> IF n \in DOMAIN f THEN f[n] ELSE Default(n)]] :
            f \in Assignments(sig, req \cup optional)}

Kwargs(sig) ==
    LET opt == {i \in 1..Len(sig) : sig[i][2] # Required}
    IN  UNION {Bind(sig, G) : G \in SubsetsUpTo(opt, MaxSupplied)}

CallsOf(op, args, responses) ==
    {[op |-> op, kw |-> a.kw, given |-> a.given, resp |-> r] :
        a \in args, r \in responses}

SeqsUpTo(S, n) == UNION {[1..k -> S] : k \in 0..n}

\* what a server answers whatever the endpoint: no content, a page that is
\* no JSON, JSON of the wrong shape, and errors
CommonResponses ==
    { [status_code |-> 204, content |-> Raw("")],
      [status_code |-> 200, content |-> Raw("<html>Bad gateway</html>")],
      [status_code |-> 200, content |-> Json(Obj(<< >>))],
      [status_code |-> 200, content |-> Json(Str("maintenance"))],
      [status_code |-> 404, content |-> Json(Obj(<< <<"message", Str("Station not found")>> >>))],
      [status_code |-> 500, content |-> Raw("Gateway timeout")] }

Ok(bodies) == {[status_code |-> 200, content |-> Json(b)] : b \in bodies}

\* conftest.py: MINIMAL_DISRUPTION, MINIMAL_CALAMITY and variations of them
ItemCommon == << <<"id", Str("x-123")>>, <<"isActive", Bool(TRUE)>>, <<"title", Str("Test")>> >>
DisruptionItems ==
    { Obj(<< <<"type", Str("DISRUPTION")>> >> \o ItemCommon \o << <<"timespans", Lst(<< >>)>> >>),
      Obj(<< <<"type", Str("MAINTENANCE")>> >> \o ItemCommon \o << <<"timespans", Lst(<< >>)>> >>),
      Obj(<< <<"type", Str("CALAMITY")>> >> \o ItemCommon \o << <<"priority", Str("PRIO_1")>> >>),
      \* no discriminator
      Obj(ItemCommon \o << <<"timespans", Lst(<< >>)>> >>),
      \* the fields of the one shape under the discriminator of the other
      Obj(<< <<"type", Str("DISRUPTION")>> >> \o ItemCommon \o << <<"priority", Str("PRIO_1")>> >>),
      Obj(<< <<"type", Str("CALAMITY")>> >> \o ItemCommon \o << <<"timespans", Lst(<< >>)>> >>),
      \* the fields of both shapes
      Obj(<< <<"type", Str("CALAMITY")>> >> \o ItemCommon
             \o << <<"priority", Str("PRIO_1")>>, <<"timespans", Lst(<< >>)>> >>),
      \* not an object
      Str("oops") }

DisruptionLists == {Lst(q) : q \in SeqsUpTo(DisruptionItems, MaxItems)}

DisruptionsAPI_list_signature ==
    << <<"is_active", None, BoolS>>,
       <<"disruption_type", None, DisruptionType>>,
       <<"language", None, LangS>> >>

DisruptionsAPI_get_signature ==
    << <<"disruption_type", Required, DisruptionType>>,
       <<"disruption_id", Required, {Str("dis-123")}>>,
       <<"language", None, LangS>> >>

DisruptionsAPI_list_for_station_signature ==
    << <<"station_code", Required, StrS>>,
       <<"language", None, LangS>> >>

DisruptionsAPI_list_personal_signature ==
    << <<"push_id", Required, {Str("push-1")}>> >>

SavedTrips ==
    { Model("SyncSavedTripsRequest",
            Obj(<< <<"id", Flt(1)>>, <<"ctxRecon", Str("arnu|test")>> >>)) }

DisruptionsAPI_sync_saved_trips_signature ==
    << <<"api_key", Required, {Str("sync-api-key")}>>,
       <<"saved_trip", Required, SavedTrips>> >>

DisruptionsCalls ==
    CallsOf("DisruptionsAPI.list", Kwargs(DisruptionsAPI_list_signature),
            CommonResponses)
    \cup CallsOf("DisruptionsAPI.list", Bind(DisruptionsAPI_list_signature, {}),
                 Ok(DisruptionLists))
    \cup CallsOf("DisruptionsAPI.get", Kwargs(DisruptionsAPI_get_signature),
                 CommonResponses \cup Ok(DisruptionItems))
    \cup CallsOf("DisruptionsAPI.list_for_station",
                 Kwargs(DisruptionsAPI_list_for_station_signature),
                 CommonResponses)
    \cup CallsOf("DisruptionsAPI.list_for_station",
                 Bind(DisruptionsAPI_list_for_station_signature, {}),
                 Ok(DisruptionLists))
    \cup CallsOf("DisruptionsAPI.list_personal",
                 Kwargs(DisruptionsAPI_list_personal_signature),
                 CommonResponses \cup Ok({Lst(<< >>), Lst(<< Obj(<< <<"id", Str("p-1")>> >>) >>)}))
    \cup CallsOf("DisruptionsAPI.sync_saved_trips",
                 Kwargs(DisruptionsAPI_sync_saved_trips_signature),
                 CommonResponses)

StationsAPI_list_signature ==
    << <<"query", None, {Str("amsterdam")}>>,
       <<"country_codes", None, {Str("NL,BE")}>>,
       <<"include_non_plannable", None, BoolS>>,
       <<"limit", None, IntS>> >>

StationsAPI_list_nearest_signature ==
    << <<"lat", Required, FloatS>>,
       <<"lng", Required, {Flt(4)}>>,
       <<"limit", None, IntS>>,
       <<"include_non_plannable", None, BoolS>> >>

StationsAPI_get_signature ==
    << <<"uic_code", Required, {Str("8400058")}>>,
       <<"uic_cd_code", None, {Str("840005800000")}>> >>

\* conftest.py: MINIMAL_STATION_V2, MINIMAL_STATION_V3
StationV2Item == Obj(<< <<"UICCode", Str("8400058")>>, <<"code", Str("ASD")>>, <<"land", Str("NL")>> >>)
StationV3Item == Obj(<< <<"id", Obj(<< <<"uicCode", Str("8400058")>> >>)>>,
                        <<"names", Obj(<< <<"long", Str("Amsterdam Centraal")>> >>)>> >>)
Payload(v) == Obj(<< <<"payload", v>> >>)

StationsCalls ==
    CallsOf("StationsAPI.list_v2", Kwargs(StationsAPI_list_signature),
            CommonResponses \cup Ok({Payload(Lst(<< StationV2Item >>)),
                                     Payload(Lst(<< StationV3Item >>))}))
    \cup CallsOf("StationsAPI.list_nearest_v2", Kwargs(StationsAPI_list_nearest_signature),
                 CommonResponses \cup Ok({Payload(Lst(<< StationV2Item >>))}))
    \cup CallsOf("StationsAPI.list_v3", Kwargs(StationsAPI_list_signature),
                 CommonResponses \cup Ok({Payload(Lst(<< StationV3Item >>)),
                                          Payload(Lst(<< StationV2Item >>))}))
    \cup CallsOf("StationsAPI.list_nearest_v3", Kwargs(StationsAPI_list_nearest_signature),
                 CommonResponses \cup Ok({Payload(Lst(<< StationV3Item >>))}))
    \cup CallsOf("StationsAPI.get", Kwargs(StationsAPI_get_signature),
                 CommonResponses \cup Ok({Payload(StationV3Item),
                                          Payload(Lst(<< StationV3Item >>))}))

TokenS == {Str("Bearer tok")}
StrListS == {Lst(<< Str("nl"), Str("b") >>), Lst(<< >>)}

\* py_ns.models.travel.TravelClass
TravelClass ==
    { Enum("TravelClass", "first_class", "FIRST_CLASS"),
      Enum("TravelClass", "second_class", "SECOND_CLASS") }

TravelAPI_get_departures_signature ==
    << <<"station", Required, {Str("ASD"), Str("")}>>,
       <<"uic_code", None, {Str("8400058")}>>,
       <<"date_time", None, DateS>>,
       <<"max_journeys", Num(40), IntS>>,
       <<"language", None, LangS>> >>

TravelAPI_get_arrivals_signature == TravelAPI_get_departures_signature

TravelAPI_get_journey_signature ==
    << <<"train", None, IntS>>,
       <<"journey_id", None, StrS>>,
       <<"date_time", None, DateS>>,
       <<"departure_uic_code", None, StrS>>,
       <<"transfer_uic_code", None, StrS>>,
       <<"arrival_uic_code", None, StrS>>,
       <<"omit_crowd_forecast", Bool(FALSE), BoolS>> >>

TravelAPI_plan_trip_signature ==
    << <<"from_station", None, StrS>>,
       <<"to_station", None, StrS>>,
       <<"origin_uic_code", None, StrS>>,
       <<"origin_lat", None, FloatS>>,
       <<"origin_lng", None, FloatS>>,
       <<"origin_name", None, StrS>>,
       <<"destination_uic_code", None, StrS>>,
       <<"destination_lat", None, FloatS>>,
       <<"destination_lng", None, FloatS>>,
       <<"destination_name", None, StrS>>,
       <<"via_station", None, StrS>>,
       <<"via_uic_code", None, StrS>>,
       <<"via_lat", None, FloatS>>,
       <<"via_lng", None, FloatS>>,
       <<"via_wait_time", None, IntS>>,
       <<"date_time", None, DateS>>,
       <<"search_for_arrival", Bool(FALSE), BoolS>>,
       <<"language", None, LangS>>,
       <<"context", None, StrS>>,
       <<"add_change_time", None, IntS>>,
       <<"passing", None, BoolS>>,
       <<"local_trains_only", None, BoolS>>,
       <<"exclude_high_speed_trains", None, BoolS>>,
       <<"exclude_trains_with_reservation_required", None, BoolS>>,
       <<"travel_request_type", None, StrS>>,
       <<"filter_transport_mode", None, StrS>>,
       <<"disabled_transport_modalities", None, StrListS>>,
       <<"origin_walk", None, BoolS>>,
       <<"origin_bike", None, BoolS>>,
       <<"origin_car", None, BoolS>>,
       <<"destination_walk", None, BoolS>>,
       <<"destination_bike", None, BoolS>>,
       <<"destination_car", None, BoolS>>,
       <<"first_mile_modality", None, StrS>>,
       <<"last_mile_modality", None, StrS>>,
       <<"entire_trip_modality", None, StrS>>,
       <<"travel_assistance", None, BoolS>>,
       <<"search_for_accessible_trip", None, BoolS>>,
       <<"accessibility_equipment1", None, StrS>>,
       <<"accessibility_equipment2", None, StrS>>,
       <<"product", None, StrS>>,
       <<"discount", None, StrS>>,
       <<"travel_class", None, IntS>>,
       <<"authorization", None, TokenS>>,
       <<"nsr", None, IntS>>,
       <<"departure", None, BoolS>>,
       <<"shorter_change", None, BoolS>>,
       <<"minimal_change_time", None, IntS>>,
       <<"origin_accessible", None, BoolS>>,
       <<"travel_assistance_transfer_time", None, IntS>> >>

TravelAPI_get_trip_signature ==
    << <<"ctx_recon", Required, {Str("arnu|test")}>>,
       <<"date", None, DateS>>,
       <<"travel_request_type", Str("DEFAULT"), {Str("DIRECTIONS"), Str("")}>>,
       <<"product", None, StrS>>,
       <<"discount", None, StrS>>,
       <<"travel_class", None, IntS>>,
       <<"authorization", None, TokenS>>,
       <<"language", None, LangS>>,
       <<"nsr", None, IntS>>,
       <<"source_ctx_recon", None, BoolS>> >>

TravelAPI_get_booked_trip_signature ==
    << <<"ctx_recon", Required, {Str("arnu|test")}>>,
       <<"booking_number", Required, {Num(7)}>>,
       <<"original_trip_request_id", Required, {Num(0)}>>,
       <<"authorization", Required, TokenS>>,
       <<"accessibility_equipment1", None, StrS>>,
       <<"accessibility_equipment2", None, StrS>>,
       <<"language", None, LangS>> >>

TravelAPI_get_price_signature ==
    << <<"from_station", None, StrS>>,
       <<"to_station", None, StrS>>,
       <<"travel_class", None, TravelClass>>,
       <<"travel_type", None, {Str("single")}>>,
       <<"is_joint_journey", Bool(FALSE), BoolS>>,
       <<"adults", Num(1), IntS>>,
       <<"children", Num(0), IntS>>,
       <<"route_id", None, StrS>>,
       <<"planned_departure_time", None, DateS>>,
       <<"planned_arrival_time", None, DateS>> >>

TravelAPI_get_price_v2_signature ==
    << <<"from_station", None, StrS>>,
       <<"to_station", None, StrS>>,
       <<"travel_class", None, {Str("1")}>>,
       <<"travel_type", None, {Str("single")}>>,
       <<"is_joint_journey", Bool(FALSE), BoolS>>,
       <<"adults", Num(1), IntS>>,
       <<"children", Num(0), IntS>>,
       <<"route_id", None, StrS>>,
       <<"planned_from_time", None, DateS>>,
       <<"planned_arrival_time", None, DateS>> >>

TravelAPI_get_stations_signature ==
    << <<"query", None, {Str("amsterdam")}>>,
       <<"country_codes", None, StrListS>>,
       <<"limit", Num(10), IntS>> >>

TravelAPI_get_nearest_stations_signature ==
    << <<"lat", Required, FloatS>>,
       <<"lng", Required, {Flt(4)}>>,
       <<"limit", Num(2), IntS>> >>

TravelAPI_get_calamities_signature ==
    << <<"language", None, LangS>> >>

TravelAPI_list_disruptions_signature ==
    << <<"disruption_type", None, {Lst(<< Str("CALAMITY"), Str("MAINTENANCE") >>)}>>,
       <<"is_active", Bool(FALSE), BoolS>>,
       <<"language", None, LangS>> >>

TravelAPI_list_station_disruptions_signature ==
    << <<"station_code", Required, StrS>> >>

TravelAPI_get_disruption_signature ==
    << <<"disruption_type", Required, {Str("DISRUPTION")}>>,
       <<"disruption_id", Required, {Str("dis-123")}>> >>

\* the positions of the named parameters in a signature
Positions(sig, names) == {i \in 1..Len(sig) : sig[i][1] \in names}

\* conftest.py: FIXTURE_DEPARTURES .. FIXTURE_PRICE_V2
NamedItem == Obj(<< <<"name", Str("IC 1234")>>, <<"cancelled", Bool(FALSE)>> >>)
TripItem == Obj(<< <<"uid", Str("trip-uid-123")>>, <<"legs", Lst(<< >>)>> >>)
DeparturesBody == Payload(Obj(<< <<"source", Str("DDR")>>, <<"departures", Lst(<< NamedItem >>)>> >>))
ArrivalsBody == Payload(Obj(<< <<"source", Str("DDR")>>, <<"arrivals", Lst(<< NamedItem >>)>> >>))
JourneyBody == Payload(Obj(<< <<"stops", Lst(<< >>)>>, <<"source", Str("DDR")>> >>))
TravelAdviceBody == Obj(<< <<"source", Str("HARP")>>, <<"trips", Lst(<< TripItem >>)>> >>)
PriceV3Body == Payload(Obj(<< <<"prices", Lst(<< >>)>> >>))
PriceV2Body == Payload(Obj(<< <<"totalPriceInCents", Num(1090)>> >>))
StationsBody == Payload(Lst(<< Obj(<< <<"code", Str("ASD")>>, <<"land", Str("NL")>> >>) >>))
CalamitiesBody == Obj(<< <<"calamiteit", None>>, <<"meldingen", Lst(<< >>)>> >>)

TravelCalls ==
    CallsOf("TravelAPI.get_departures", Kwargs(TravelAPI_get_departures_signature),
            CommonResponses \cup Ok({DeparturesBody, ArrivalsBody}))
    \cup CallsOf("TravelAPI.get_arrivals", Kwargs(TravelAPI_get_arrivals_signature),
                 CommonResponses \cup Ok({ArrivalsBody, DeparturesBody}))
    \cup CallsOf("TravelAPI.get_journey", Kwargs(TravelAPI_get_journey_signature),
                 CommonResponses \cup Ok({JourneyBody}))
    \cup CallsOf("TravelAPI.plan_trip", Kwargs(TravelAPI_plan_trip_signature),
                 Ok({TravelAdviceBody}))
    \cup CallsOf("TravelAPI.plan_trip", Bind(TravelAPI_plan_trip_signature, {}),
                 CommonResponses)
    \* every subset of the deprecated parameters of plan_trip
    \cup CallsOf("TravelAPI.plan_trip",
                 UNION {Bind(TravelAPI_plan_trip_signature, G) :
                           G \in SUBSET Positions(TravelAPI_plan_trip_signature,
                                     {TravelAPI_plan_trip_deprecated[i][1] : i \in 1..5})},
                 Ok({TravelAdviceBody}))
    \* each deprecated parameter of plan_trip, with every kind of answer
    \cup CallsOf("TravelAPI.plan_trip",
                 UNION {Bind(TravelAPI_plan_trip_signature,
                             Positions(TravelAPI_plan_trip_signature,
                                       {TravelAPI_plan_trip_deprecated[i][1]})) :
                           i \in 1..5},
                 CommonResponses)
    \* the origin given both as a station code and as coordinates
    \cup CallsOf("TravelAPI.plan_trip",
                 Bind(TravelAPI_plan_trip_signature,
                      Positions(TravelAPI_plan_trip_signature,
                                {"from_station", "origin_lat", "origin_lng"})),
                 CommonResponses \cup Ok({TravelAdviceBody}))
    \cup CallsOf("TravelAPI.get_trip", Kwargs(TravelAPI_get_trip_signature),
                 CommonResponses \cup Ok({TripItem}))
    \* authorization and language together
    \cup CallsOf("TravelAPI.get_trip",
                 Bind(TravelAPI_get_trip_signature,
                      Positions(TravelAPI_get_trip_signature, {"authorization", "language"})),
                 Ok({TripItem}))
    \cup CallsOf("TravelAPI.get_booked_trip", Kwargs(TravelAPI_get_booked_trip_signature),
                 CommonResponses \cup Ok({TripItem}))
    \cup CallsOf("TravelAPI.get_price", Kwargs(TravelAPI_get_price_signature),
                 CommonResponses \cup Ok({PriceV3Body}))
    \cup CallsOf("TravelAPI.get_price_v2", Kwargs(TravelAPI_get_price_v2_signature),
                 CommonResponses \cup Ok({PriceV2Body}))
    \cup CallsOf("TravelAPI.get_stations", Kwargs(TravelAPI_get_stations_signature),
                 CommonResponses \cup Ok({StationsBody}))
    \cup CallsOf("TravelAPI.get_nearest_stations",
                 Kwargs(TravelAPI_get_nearest_stations_signature),
                 CommonResponses \cup Ok({StationsBody}))
    \cup CallsOf("TravelAPI.get_calamities", Kwargs(TravelAPI_get_calamities_signature),
                 CommonResponses \cup Ok({CalamitiesBody}))
    \cup CallsOf("TravelAPI.list_disruptions", Kwargs(TravelAPI_list_disruptions_signature),
                 CommonResponses \cup Ok({Lst(<< >>)} \cup {Lst(<< d >>) : d \in DisruptionItems}))
    \cup CallsOf("TravelAPI.list_station_disruptions",
                 Kwargs(TravelAPI_list_station_disruptions_signature),
                 CommonResponses \cup Ok({Lst(<< >>)} \cup {Lst(<< d >>) : d \in DisruptionItems}))
    \cup CallsOf("TravelAPI.get_disruption", Kwargs(TravelAPI_get_disruption_signature),
                 CommonResponses \cup Ok(DisruptionItems))

Calls == TransportCalls \cup DisruptionsCalls \cup StationsCalls \cup TravelCalls

NoCall == [op |-> "none"]
NoOutcome == [kind |-> "none"]

-----------------------------------------------------------------------------
(* The state machine                                                       *)

\* NSClient.__init__ / HttpTransport.__init__, and the caller's script
Construct(keys, scripts) ==
    /\ api_key \in keys
    /\ client_headers = TransportInit(api_key)
    /\ is_closed = FALSE
    /\ close_count = 0
    /\ release_count = 0
    /\ script \in scripts
    /\ call = NoCall
    /\ history = << >>
    /\ sent = << >>
    /\ sites = << >>
    /\ request = NoRequest
    /\ outcome = NoOutcome
    /\ notices = << >>
    /\ scope = "outside"
    /\ left_by = "none"

\* a client and one call planned on it
Init == Construct(ApiKeys, {<<c>> : c \in Calls})

\* as Logged, for a transport that sends a request again when the answer is
\* no success
Logged_retried(log, c, req) ==
    IF req = NoRequest THEN log
    ELSE LET once == Append(log, [op |-> c.op, kw |-> c.kw, request |-> req])
         IN  IF is_success(c.resp) THEN once
             ELSE Append(once, [op |-> c.op, kw |-> c.kw, request |-> req])

\* the wire log after a call: a closed client sends nothing
Logged(log, c, req) ==
    IF req = NoRequest THEN log
    ELSE Append(log, [op |-> c.op, kw |-> c.kw, request |-> req])

Pending(op) == script # << >> /\ Head(script).op = op

\* the caller calls transport.get(url, params=..., headers=...)
HttpTransport_get ==
    /\ Pending("HttpTransport.get")
    /\ LET c == Head(script)
           t == get(c.kw.url, c.kw.params, c.kw.headers, c.resp)
       IN  /\ call' = c
           /\ request' = t.request
           /\ outcome' = t.result
           /\ sent' = Logged(sent, c, t.request)
           /\ client_headers' = DefaultsAfter(client_headers, t.request)
    /\ notices' = << >>
    /\ script' = Tail(script)
    /\ history' = Append(history, outcome'.kind)
    /\ UNCHANGED <<api_key, is_closed, close_count, release_count,
                   scope, left_by,
                   sites>>

\* the caller calls transport.post(url, json=..., headers=...)
HttpTransport_post ==
    /\ Pending("HttpTransport.post")
    /\ LET c == Head(script)
           t == post(c.kw.url, c.kw.json, c.kw.headers, c.resp)
       IN  /\ call' = c
           /\ request' = t.request
           /\ outcome' = t.result
           /\ sent' = Logged(sent, c, t.request)
           /\ client_headers' = DefaultsAfter(client_headers, t.request)
    /\ notices' = << >>
    /\ script' = Tail(script)
    /\ history' = Append(history, outcome'.kind)
    /\ UNCHANGED <<api_key, is_closed, close_count, release_count,
                   scope, left_by,
                   sites>>

\* An endpoint method, from its first statement to its return or raise:
\* the warnings, the request built from the keyword arguments, the round
\* trip through the transport, the parsing of what the transport returned.
Endpoint(Notices(_), Request(_), Parse(_)) ==
    /\ LET c == Head(script)
           r == Request(c.kw)
           t == IF r.method = "GET"
                THEN get(r.url, r.params, r.headers, c.resp)
                ELSE post(r.url, r.json, r.headers, c.resp)
       IN  /\ call' = c
           /\ notices' = Notices(c.kw)
           /\ request' = t.request
           /\ outcome' = IF t.result.kind = "return"
                         THEN Parse(t.result.value)
                         ELSE t.result
           /\ sent' = Logged(sent, c, t.request)
           /\ client_headers' = DefaultsAfter(client_headers, t.request)
    /\ script' = Tail(script)
    /\ history' = Append(history, outcome'.kind)
    /\ UNCHANGED <<api_key, is_closed, close_count, release_count,
                   scope, left_by,
                   sites>>

NoNotices(kw) == << >>

DisruptionsAPI_list ==
    /\ Pending("DisruptionsAPI.list")
    /\ Endpoint(NoNotices, DisruptionsAPI_list_request, DisruptionsAPI_list_parse)

DisruptionsAPI_get ==
    /\ Pending("DisruptionsAPI.get")
    /\ Endpoint(NoNotices, DisruptionsAPI_get_request, DisruptionsAPI_get_parse)

DisruptionsAPI_list_for_station ==
    /\ Pending("DisruptionsAPI.list_for_station")
    /\ Endpoint(NoNotices, DisruptionsAPI_list_for_station_request, DisruptionsAPI_list_for_station_parse)

DisruptionsAPI_list_personal ==
    /\ Pending("DisruptionsAPI.list_personal")
    /\ Endpoint(NoNotices, DisruptionsAPI_list_personal_request, DisruptionsAPI_list_personal_parse)

DisruptionsAPI_sync_saved_trips ==
    /\ Pending("DisruptionsAPI.sync_saved_trips")
    /\ Endpoint(NoNotices, DisruptionsAPI_sync_saved_trips_request, DisruptionsAPI_sync_saved_trips_parse)

StationsAPI_list_v2 ==
    /\ Pending("StationsAPI.list_v2")
    /\ Endpoint(NoNotices, StationsAPI_list_v2_request, StationsAPI_list_v2_parse)

StationsAPI_list_nearest_v2 ==
    /\ Pending("StationsAPI.list_nearest_v2")
    /\ Endpoint(NoNotices, StationsAPI_list_nearest_v2_request,
                StationsAPI_list_nearest_v2_parse)

StationsAPI_list_v3 ==
    /\ Pending("StationsAPI.list_v3")
    /\ Endpoint(NoNotices, StationsAPI_list_v3_request, StationsAPI_list_v3_parse)

StationsAPI_list_nearest_v3 ==
    /\ Pending("StationsAPI.list_nearest_v3")
    /\ Endpoint(NoNotices, StationsAPI_list_nearest_v3_request,
                StationsAPI_list_nearest_v3_parse)

StationsAPI_get ==
    /\ Pending("StationsAPI.get")
    /\ Endpoint(NoNotices, StationsAPI_get_request, StationsAPI_get_parse)

TravelAPI_get_departures ==
    /\ Pending("TravelAPI.get_departures")
    /\ Endpoint(NoNotices, TravelAPI_get_departures_request,
                TravelAPI_get_departures_parse)

TravelAPI_get_arrivals ==
    /\ Pending("TravelAPI.get_arrivals")
    /\ Endpoint(NoNotices, TravelAPI_get_arrivals_request,
                TravelAPI_get_arrivals_parse)

TravelAPI_get_journey ==
    /\ Pending("TravelAPI.get_journey")
    /\ Endpoint(NoNotices, TravelAPI_get_journey_request,
                TravelAPI_get_journey_parse)

TravelAPI_plan_trip ==
    /\ Pending("TravelAPI.plan_trip")
    /\ Endpoint(TravelAPI_plan_trip_notices, TravelAPI_plan_trip_request,
                TravelAPI_plan_trip_parse)

TravelAPI_get_trip ==
    /\ Pending("TravelAPI.get_trip")
    /\ Endpoint(TravelAPI_get_trip_notices, TravelAPI_get_trip_request,
                TravelAPI_get_trip_parse)

TravelAPI_get_booked_trip ==
    /\ Pending("TravelAPI.get_booked_trip")
    /\ Endpoint(NoNotices, TravelAPI_get_booked_trip_request,
                TravelAPI_get_booked_trip_parse)

TravelAPI_get_price ==
    /\ Pending("TravelAPI.get_price")
    /\ Endpoint(NoNotices, TravelAPI_get_price_request,
                TravelAPI_get_price_parse)

TravelAPI_get_price_v2 ==
    /\ Pending("TravelAPI.get_price_v2")
    /\ Endpoint(NoNotices, TravelAPI_get_price_v2_request,
                TravelAPI_get_price_v2_parse)

TravelAPI_get_stations ==
    /\ Pending("TravelAPI.get_stations")
    /\ Endpoint(TravelAPI_get_stations_notices, TravelAPI_get_stations_request,
                TravelAPI_get_stations_parse)

TravelAPI_get_nearest_stations ==
    /\ Pending("TravelAPI.get_nearest_stations")
    /\ Endpoint(TravelAPI_get_nearest_stations_notices, TravelAPI_get_nearest_stations_request,
                TravelAPI_get_nearest_stations_parse)

TravelAPI_get_calamities ==
    /\ Pending("TravelAPI.get_calamities")
    /\ Endpoint(TravelAPI_get_calamities_notices, TravelAPI_get_calamities_request,
                TravelAPI_get_calamities_parse)

TravelAPI_list_disruptions ==
    /\ Pending("TravelAPI.list_disruptions")
    /\ Endpoint(TravelAPI_list_disruptions_notices, TravelAPI_list_disruptions_request,
                TravelAPI_list_disruptions_parse)

TravelAPI_list_station_disruptions ==
    /\ Pending("TravelAPI.list_station_disruptions")
    /\ Endpoint(TravelAPI_list_station_disruptions_notices, TravelAPI_list_station_disruptions_request,
                TravelAPI_list_station_disruptions_parse)

TravelAPI_get_disruption ==
    /\ Pending("TravelAPI.get_disruption")
    /\ Endpoint(TravelAPI_get_disruption_notices, TravelAPI_get_disruption_request,
                TravelAPI_get_disruption_parse)

\* a client that released its pool at every close() forwarded to it
ClientClose_every_call ==
    /\ is_closed' = TRUE
    /\ close_count' = close_count + 1
    /\ release_count' = release_count + 1

\* self._client.close(): httpx closes a client once; closing a closed client
\* does nothing
ClientClose ==
    /\ is_closed' = TRUE
    /\ close_count' = close_count + 1
    /\ release_count' = IF is_closed THEN release_count ELSE release_count + 1

\* a close() that does not reach the client
close_not_forwarded ==
    /\ close_count < MaxCloses
    /\ close_count' = close_count + 1
    /\ UNCHANGED <<api_key, client_headers, is_closed, release_count, script, call,
                   request, outcome, notices, scope, left_by, history, sent,
                   sites>>

\* HttpTransport.close, which NSClient.close delegates to
close ==
    /\ close_count < MaxCloses
    /\ ClientClose
    /\ UNCHANGED <<api_key, client_headers, script, call, request, outcome,
                   notices, scope, left_by, history, sent,
                   sites>>

\* the object the caller holds: an NSClient for the endpoint calls, an
\* HttpTransport for calls on the transport itself
Holds(class) ==
    LET op == IF script # << >> THEN Head(script).op ELSE call.op
    IN  (op \in {"HttpTransport.get", "HttpTransport.post"}) <=> (class = "HttpTransport")

\* `with NSClient(...) as client:` enters the block, before any call;
\* __enter__ returns self
NSClient___enter__ ==
    /\ Holds("NSClient")
    /\ scope = "outside"
    /\ call = NoCall
    /\ scope' = "inside"
    /\ UNCHANGED <<api_key, client_headers, is_closed, close_count, release_count,
                   script, call, request, outcome, notices, left_by, history, sent,
                   sites>>

\* as NSClient___exit__, closing only when the block ended without exception
NSClient___exit___on_return ==
    /\ Holds("NSClient")
    /\ scope = "inside"
    /\ scope' = "left"
    /\ left_by' = IF outcome.kind = "raise" THEN "raise" ELSE "return"
    /\ IF outcome.kind # "raise" THEN ClientClose
       ELSE UNCHANGED <<is_closed, close_count, release_count>>
    /\ UNCHANGED <<api_key, client_headers, script, call, request, outcome, notices,
                   history, sent,
                   sites>>

\* control leaves the block, at its end or with the exception of the call
\* that raised in it: NSClient.__exit__(*args) runs self.close(), which runs
\* self._transport.close()
NSClient___exit__ ==
    /\ Holds("NSClient")
    /\ scope = "inside"
    /\ scope' = "left"
    /\ left_by' = IF outcome.kind = "raise" THEN "raise" ELSE "return"
    /\ ClientClose
    /\ UNCHANGED <<api_key, client_headers, script, call, request, outcome, notices,
                   history, sent,
                   sites>>

\* `with HttpTransport(...) as t:` enters the block, before any call;
\* __enter__ returns self
HttpTransport___enter__ ==
    /\ Holds("HttpTransport")
    /\ scope = "outside"
    /\ call = NoCall
    /\ scope' = "inside"
    /\ UNCHANGED <<api_key, client_headers, is_closed, close_count, release_count,
                   script, call, request, outcome, notices, left_by, history, sent,
                   sites>>

\* control leaves the block: HttpTransport.__exit__(*args) runs self.close()
HttpTransport___exit__ ==
    /\ Holds("HttpTransport")
    /\ scope = "inside"
    /\ scope' = "left"
    /\ left_by' = IF outcome.kind = "raise" THEN "raise" ELSE "return"
    /\ ClientClose
    /\ UNCHANGED <<api_key, client_headers, script, call, request, outcome, notices,
                   history, sent,
                   sites>>

Next ==
    \/ HttpTransport_get
    \/ HttpTransport_post
    \/ DisruptionsAPI_list
    \/ DisruptionsAPI_get
    \/ DisruptionsAPI_list_for_station
    \/ DisruptionsAPI_list_personal
    \/ DisruptionsAPI_sync_saved_trips
    \/ StationsAPI_list_v2
    \/ StationsAPI_list_nearest_v2
    \/ StationsAPI_list_v3
    \/ StationsAPI_list_nearest_v3
    \/ StationsAPI_get
    \/ TravelAPI_get_departures
    \/ TravelAPI_get_arrivals
    \/ TravelAPI_get_journey
    \/ TravelAPI_plan_trip
    \/ TravelAPI_get_trip
    \/ TravelAPI_get_booked_trip
    \/ TravelAPI_get_price
    \/ TravelAPI_get_price_v2
    \/ TravelAPI_get_stations
    \/ TravelAPI_get_nearest_stations
    \/ TravelAPI_get_calamities
    \/ TravelAPI_list_disruptions
    \/ TravelAPI_list_station_disruptions
    \/ TravelAPI_get_disruption
    \/ close
    \/ NSClient___enter__
    \/ NSClient___exit__
    \/ HttpTransport___enter__
    \/ HttpTransport___exit__

Spec == Init /\ [][Next]_vars

\* A session: two calls, one after the other, on the same object.
NotFound ==
    [status_code |-> 404,
     content |-> Json(Obj(<< <<"message", Str("Station not found")>> >>))]

\* of each operation, one call answered 404 and one answered 200 with a body
\* of that endpoint (204 where the endpoint has no body)
SessionCalls(calls) ==
    LET Of(op) == {c \in calls : c.op = op}
        WithBody(op) == {c \in Of(op) : /\ c.resp.status_code = 200
                                        /\ c.resp \notin CommonResponses}
    IN  UNION {{CHOOSE c \in Of(op) : c.resp = NotFound,
                IF WithBody(op) # {} THEN CHOOSE c \in WithBody(op) : TRUE
                ELSE CHOOSE c \in Of(op) : c.resp.status_code = 204} :
               op \in {c.op : c \in calls}}

\* calls that pass `language`, one sent as a header and one in the query
Between ==
    {CHOOSE c \in DisruptionsCalls : /\ c.op = "DisruptionsAPI.list"
                                     /\ c.given = {"language"}
                                     /\ c.resp = NotFound,
     CHOOSE c \in TravelCalls : /\ c.op = "TravelAPI.get_departures"
                                /\ "language" \in c.given
                                /\ c.resp.status_code = 200
                                /\ c.resp \notin CommonResponses}

\* a call, another call, and the first call again
Replays ==
    {<<a, b, a>> : a \in SessionCalls(DisruptionsCalls \cup StationsCalls \cup TravelCalls),
                   b \in Between}

Sessions ==
    [1..2 -> SessionCalls(TransportCalls)]
    \cup [1..2 -> SessionCalls(DisruptionsCalls \cup StationsCalls \cup TravelCalls)]
    \cup Replays

\* a client and a session planned on it
SessionInit == Construct(ApiKeys, Sessions)

SessionSpec == SessionInit /\ [][Next]_vars

-----------------------------------------------------------------------------
(* Calls running at the same time.  Each call site runs an endpoint method *)
(* in three steps: the method builds its locals (params, headers) and      *)
(* emits its warnings; the transport sends them through the client's pool  *)
(* and handles the response; the method parses what the transport          *)
(* returned.  The steps of two sites interleave in any order.              *)

\* the endpoint method called, by operation
NoticesOf(c) ==
    CASE c.op = "DisruptionsAPI.list" ->
             NoNotices(c.kw)
      [] c.op = "DisruptionsAPI.get" ->
             NoNotices(c.kw)
      [] c.op = "DisruptionsAPI.list_for_station" ->
             NoNotices(c.kw)
      [] c.op = "DisruptionsAPI.list_personal" ->
             NoNotices(c.kw)
      [] c.op = "DisruptionsAPI.sync_saved_trips" ->
             NoNotices(c.kw)
      [] c.op = "StationsAPI.list_v2" ->
             NoNotices(c.kw)
      [] c.op = "StationsAPI.list_nearest_v2" ->
             NoNotices(c.kw)
      [] c.op = "StationsAPI.list_v3" ->
             NoNotices(c.kw)
      [] c.op = "StationsAPI.list_nearest_v3" ->
             NoNotices(c.kw)
      [] c.op = "StationsAPI.get" ->
             NoNotices(c.kw)
      [] c.op = "TravelAPI.get_departures" ->
             NoNotices(c.kw)
      [] c.op = "TravelAPI.get_arrivals" ->
             NoNotices(c.kw)
      [] c.op = "TravelAPI.get_journey" ->
             NoNotices(c.kw)
      [] c.op = "TravelAPI.plan_trip" ->
             TravelAPI_plan_trip_notices(c.kw)
      [] c.op = "TravelAPI.get_trip" ->
             TravelAPI_get_trip_notices(c.kw)
      [] c.op = "TravelAPI.get_booked_trip" ->
             NoNotices(c.kw)
      [] c.op = "TravelAPI.get_price" ->
             NoNotices(c.kw)
      [] c.op = "TravelAPI.get_price_v2" ->
             NoNotices(c.kw)
      [] c.op = "TravelAPI.get_stations" ->
             TravelAPI_get_stations_notices(c.kw)
      [] c.op = "TravelAPI.get_nearest_stations" ->
             TravelAPI_get_nearest_stations_notices(c.kw)
      [] c.op = "TravelAPI.get_calamities" ->
             TravelAPI_get_calamities_notices(c.kw)
      [] c.op = "TravelAPI.list_disruptions" ->
             TravelAPI_list_disruptions_notices(c.kw)
      [] c.op = "TravelAPI.list_station_disruptions" ->
             TravelAPI_list_station_disruptions_notices(c.kw)
      [] c.op = "TravelAPI.get_disruption" ->
             TravelAPI_get_disruption_notices(c.kw)

RequestOf(c) ==
    CASE c.op = "DisruptionsAPI.list" ->
             DisruptionsAPI_list_request(c.kw)
      [] c.op = "DisruptionsAPI.get" ->
             DisruptionsAPI_get_request(c.kw)
      [] c.op = "DisruptionsAPI.list_for_station" ->
             DisruptionsAPI_list_for_station_request(c.kw)
      [] c.op = "DisruptionsAPI.list_personal" ->
             DisruptionsAPI_list_personal_request(c.kw)
      [] c.op = "DisruptionsAPI.sync_saved_trips" ->
             DisruptionsAPI_sync_saved_trips_request(c.kw)
      [] c.op = "StationsAPI.list_v2" ->
             StationsAPI_list_v2_request(c.kw)
      [] c.op = "StationsAPI.list_nearest_v2" ->
             StationsAPI_list_nearest_v2_request(c.kw)
      [] c.op = "StationsAPI.list_v3" ->
             StationsAPI_list_v3_request(c.kw)
      [] c.op = "StationsAPI.list_nearest_v3" ->
             StationsAPI_list_nearest_v3_request(c.kw)
      [] c.op = "StationsAPI.get" ->
             StationsAPI_get_request(c.kw)
      [] c.op = "TravelAPI.get_departures" ->
             TravelAPI_get_departures_request(c.kw)
      [] c.op = "TravelAPI.get_arrivals" ->
             TravelAPI_get_arrivals_request(c.kw)
      [] c.op = "TravelAPI.get_journey" ->
             TravelAPI_get_journey_request(c.kw)
      [] c.op = "TravelAPI.plan_trip" ->
             TravelAPI_plan_trip_request(c.kw)
      [] c.op = "TravelAPI.get_trip" ->
             TravelAPI_get_trip_request(c.kw)
      [] c.op = "TravelAPI.get_booked_trip" ->
             TravelAPI_get_booked_trip_request(c.kw)
      [] c.op = "TravelAPI.get_price" ->
             TravelAPI_get_price_request(c.kw)
      [] c.op = "TravelAPI.get_price_v2" ->
             TravelAPI_get_price_v2_request(c.kw)
      [] c.op = "TravelAPI.get_stations" ->
             TravelAPI_get_stations_request(c.kw)
      [] c.op = "TravelAPI.get_nearest_stations" ->
             TravelAPI_get_nearest_stations_request(c.kw)
      [] c.op = "TravelAPI.get_calamities" ->
             TravelAPI_get_calamities_request(c.kw)
      [] c.op = "TravelAPI.list_disruptions" ->
             TravelAPI_list_disruptions_request(c.kw)
      [] c.op = "TravelAPI.list_station_disruptions" ->
             TravelAPI_list_station_disruptions_request(c.kw)
      [] c.op = "TravelAPI.get_disruption" ->
             TravelAPI_get_disruption_request(c.kw)

ParseOf(c, data) ==
    CASE c.op = "DisruptionsAPI.list" ->
             DisruptionsAPI_list_parse(data)
      [] c.op = "DisruptionsAPI.get" ->
             DisruptionsAPI_get_parse(data)
      [] c.op = "DisruptionsAPI.list_for_station" ->
             DisruptionsAPI_list_for_station_parse(data)
      [] c.op = "DisruptionsAPI.list_personal" ->
             DisruptionsAPI_list_personal_parse(data)
      [] c.op = "DisruptionsAPI.sync_saved_trips" ->
             DisruptionsAPI_sync_saved_trips_parse(data)
      [] c.op = "StationsAPI.list_v2" ->
             StationsAPI_list_v2_parse(data)
      [] c.op = "StationsAPI.list_nearest_v2" ->
             StationsAPI_list_nearest_v2_parse(data)
      [] c.op = "StationsAPI.list_v3" ->
             StationsAPI_list_v3_parse(data)
      [] c.op = "StationsAPI.list_nearest_v3" ->
             StationsAPI_list_nearest_v3_parse(data)
      [] c.op = "StationsAPI.get" ->
             StationsAPI_get_parse(data)
      [] c.op = "TravelAPI.get_departures" ->
             TravelAPI_get_departures_parse(data)
      [] c.op = "TravelAPI.get_arrivals" ->
             TravelAPI_get_arrivals_parse(data)
      [] c.op = "TravelAPI.get_journey" ->
             TravelAPI_get_journey_parse(data)
      [] c.op = "TravelAPI.plan_trip" ->
             TravelAPI_plan_trip_parse(data)
      [] c.op = "TravelAPI.get_trip" ->
             TravelAPI_get_trip_parse(data)
      [] c.op = "TravelAPI.get_booked_trip" ->
             TravelAPI_get_booked_trip_parse(data)
      [] c.op = "TravelAPI.get_price" ->
             TravelAPI_get_price_parse(data)
      [] c.op = "TravelAPI.get_price_v2" ->
             TravelAPI_get_price_v2_parse(data)
      [] c.op = "TravelAPI.get_stations" ->
             TravelAPI_get_stations_parse(data)
      [] c.op = "TravelAPI.get_nearest_stations" ->
             TravelAPI_get_nearest_stations_parse(data)
      [] c.op = "TravelAPI.get_calamities" ->
             TravelAPI_get_calamities_parse(data)
      [] c.op = "TravelAPI.list_disruptions" ->
             TravelAPI_list_disruptions_parse(data)
      [] c.op = "TravelAPI.list_station_disruptions" ->
             TravelAPI_list_station_disruptions_parse(data)
      [] c.op = "TravelAPI.get_disruption" ->
             TravelAPI_get_disruption_parse(data)

Sites == {1, 2}

\* one frame for all call sites: locals kept on the API object
Slot_shared(site) == 1

\* the frame that holds the locals of the call running at `site`: every
\* invocation of a method has its own
Slot(site) == site

ConcurrentCalls == SessionCalls(DisruptionsCalls \cup StationsCalls \cup TravelCalls)

NoResult == [kind |-> "none"]

\* a client and one call about to start at each call site
ConcurrentInit ==
    /\ api_key \in ApiKeys
    /\ client_headers = TransportInit(api_key)
    /\ is_closed = FALSE
    /\ close_count = 0
    /\ release_count = 0
    /\ script = << >>
    /\ call = NoCall
    /\ history = << >>
    /\ sent = << >>
    /\ request = NoRequest
    /\ outcome = NoOutcome
    /\ notices = << >>
    /\ scope = "outside"
    /\ left_by = "none"
    /\ sites \in [Sites -> {[pc |-> "called", call |-> c, locals |-> NoRequest,
                             wire |-> NoRequest, result |-> NoResult,
                             outcome |-> NoOutcome, notices |-> << >>] :
                                c \in ConcurrentCalls}]

\* the method at `site` runs up to its call of self._http: warnings, params,
\* headers
Begin(site) ==
    /\ sites[site].pc = "called"
    /\ sites' = [sites EXCEPT ![site].pc = "built",
                              ![site].notices = NoticesOf(sites[site].call),
                              ![Slot(site)].locals = RequestOf(sites[site].call)]
    /\ UNCHANGED <<api_key, client_headers, is_closed, close_count, release_count,
                   script, call, request, outcome, notices, scope, left_by,
                   history, sent>>

\* HttpTransport.get / post for the method at `site`: the request goes
\* through the pool, the response is handled
Transmit(site) ==
    /\ sites[site].pc = "built"
    /\ LET c == sites[site].call
           r == sites[Slot(site)].locals
           t == IF r.method = "GET"
                THEN get(r.url, r.params, r.headers, c.resp)
                ELSE post(r.url, r.json, r.headers, c.resp)
       IN  /\ sites' = [sites EXCEPT ![site].pc = "answered",
                                     ![site].wire = t.request,
                                     ![site].result = t.result]
           /\ sent' = Logged(sent, c, t.request)
           /\ client_headers' = DefaultsAfter(client_headers, t.request)
    /\ UNCHANGED <<api_key, is_closed, close_count, release_count,
                   script, call, request, outcome, notices, scope, left_by,
                   history>>

\* the method at `site` parses what the transport returned, or lets the
\* transport's exception pass
Finish(site) ==
    /\ sites[site].pc = "answered"
    /\ LET c == sites[site].call
           t == sites[site].result
       IN  sites' = [sites EXCEPT ![site].pc = "done",
                                  ![site].outcome = IF t.kind = "return"
                                                    THEN ParseOf(c, t.value)
                                                    ELSE t]
    /\ UNCHANGED <<api_key, client_headers, is_closed, close_count, release_count,
                   script, call, request, outcome, notices, scope, left_by,
                   history, sent>>

ConcurrentNext == \E site \in Sites : Begin(site) \/ Transmit(site) \/ Finish(site)

ConcurrentSpec == ConcurrentInit /\ [][ConcurrentNext]_vars

-----------------------------------------------------------------------------
(* Claims about the transport                                              *)

TransportOps == {"HttpTransport.get", "HttpTransport.post"}

\* the last call reached the server and got an answer
Answered == call # NoCall /\ request # NoRequest

\* the table of section 4.1, read off the status code alone
KindOfStatus(status) ==
    IF status \in {401, 403} THEN "AuthenticationError"
    ELSE IF status = 404 THEN "NotFoundError"
    ELSE IF status = 429 THEN "RateLimitError"
    ELSE IF status >= 500 THEN "ServerError"
    ELSE "APIError"

\* C1: for every non-2xx response, get and post raise the error kind that the
\* status code fixes (401/403 Authentication, 404 NotFound, 429 RateLimit,
\* >= 500 Server, any other >= 400 plain APIError), and the error carries
\* exactly the status code of the response.
C1_StatusFixesErrorKind ==
    (Answered /\ call.op \in TransportOps /\ ~is_success(call.resp)) =>
        /\ outcome.kind = "raise"
        /\ outcome.exc \in APIErrorFamily
        /\ outcome.status_code = call.resp.status_code
        /\ call.resp.status_code >= 400 =>
               outcome.exc = KindOfStatus(call.resp.status_code)

C1_Witness ==
    /\ Answered /\ call.op = "HttpTransport.post"
    /\ call.resp.status_code = 403
    /\ outcome.kind = "raise" /\ outcome.exc = "AuthenticationError"

\* C2: the mapping is total: for every response that is not 2xx, 1xx and 3xx
\* included, get and post return no value and raise one error of the APIError
\* family that carries a message and the status code.
C2_MappingIsTotal ==
    (Answered /\ call.op \in TransportOps) =>
        (~is_success(call.resp) <=>
            /\ outcome.kind = "raise"
            /\ outcome.exc \in APIErrorFamily
            /\ DOMAIN outcome = {"kind", "exc", "message", "status_code"}
            /\ outcome.status_code = call.resp.status_code)

C2_Witness ==
    /\ Answered /\ call.op = "HttpTransport.get"
    /\ call.resp.status_code = 301
    /\ outcome.kind = "raise" /\ outcome.exc = "APIError"

\* C3 as stated: for every 2xx response get and post return: the no-content
\* marker None when the body is empty, the decoded body when it is not.
C3_AsStated ==
    (Answered /\ call.op \in TransportOps /\ is_success(call.resp)) =>
        /\ outcome.kind = "return"
        /\ IF ~HasContent(call.resp) THEN outcome.value = None
           ELSE /\ JsonDecodes(call.resp)
                /\ outcome.value = call.resp.content.v

\* C3, amended: for every 2xx response get and post raise no error of the
\* APIError family; an empty body gives None, which is neither {} nor [];
\* a non-empty body that is a JSON document gives the decoded value
\* unchanged; a non-empty body that is no JSON document makes the call
\* raise the decoder's error.
C3_SuccessBody ==
    (Answered /\ call.op \in TransportOps /\ is_success(call.resp)) =>
        /\ ~(outcome.kind = "raise" /\ outcome.exc \in APIErrorFamily)
        /\ ~HasContent(call.resp) =>
               /\ outcome = Return(None)
               /\ outcome.value \notin {Obj(<< >>), Lst(<< >>)}
        /\ (HasContent(call.resp) /\ call.resp.content.k = "json") =>
               outcome = Return(call.resp.content.v)
        /\ (HasContent(call.resp) /\ call.resp.content.k = "raw") =>
               outcome = RaiseOther("JSONDecodeError")

C3_Witness ==
    /\ Answered /\ call.op = "HttpTransport.post"
    /\ call.resp = [status_code |-> 204, content |-> Raw("")]
    /\ outcome = Return(None)

\* C4: for every non-2xx response the message of the raised error is the
\* value of the `message` field when the body is a JSON object that has that
\* field, and the raw response text in every other case; no secondary error
\* is raised, and the error kind depends on the status code alone.
C4_ErrorMessage ==
    (Answered /\ call.op \in TransportOps /\ ~is_success(call.resp)) =>
        LET body == call.resp.content
            hasField == /\ body.k = "json"
                        /\ body.v.t = "dict"
                        /\ \E i \in 1..Len(body.v.items) :
                               body.v.items[i][1] = "message"
        IN  /\ outcome.kind = "raise"
            /\ outcome.exc = KindOfStatus(call.resp.status_code)
            /\ hasField =>
                   \E i \in 1..Len(body.v.items) :
                       body.v.items[i] = <<"message", outcome.message>>
            /\ ~hasField => outcome.message = Str(ResponseText(call.resp))

C4_Witness ==
    /\ Answered /\ call.op = "HttpTransport.get"
    /\ call.resp = [status_code |-> 400,
                    content |-> Json(Obj(<< <<"error", Str("bad")>> >>))]
    /\ outcome.kind = "raise"
    /\ outcome.message = Str("{\"error\": \"bad\"}")

\* the header names the endpoint modules pass per call
PerCallHeaderNames ==
    {"accept-language", "authorization", "lang", "x-ns-push-id", "x-api-key"}

-----------------------------------------------------------------------------
(* Claims about the dispatcher                                             *)

\* the last call got a 2xx answer whose body is a JSON document
AnsweredJson ==
    /\ Answered
    /\ is_success(call.resp)
    /\ call.resp.content.k = "json"

\* the shape the discriminator of an item selects
ShapeByDiscriminator(item) ==
    IF \E i \in 1..Len(item.items) : item.items[i] = <<"type", Str("CALAMITY")>>
    THEN "Calamity" ELSE "Disruption"

ListOps == {"DisruptionsAPI.list", "DisruptionsAPI.list_for_station"}

\* C6: _parse_item selects the record shape from the `type` field alone: an
\* item with type "CALAMITY" is validated as Calamity, an item with another
\* type or none as Disruption, whatever other fields the item has.
C6_DispatchOnDiscriminator ==
    /\ (AnsweredJson /\ call.op = "DisruptionsAPI.get"
          /\ call.resp.content.v.t = "dict") =>
            LET item == call.resp.content.v
            IN  outcome = model_validate(ShapeByDiscriminator(item), item)
    /\ (AnsweredJson /\ call.op \in ListOps
          /\ call.resp.content.v.t = "list" /\ outcome.kind = "return") =>
            LET items == call.resp.content.v.items
            IN  \A i \in 1..Len(items) :
                    outcome.value.items[i].cls = ShapeByDiscriminator(items[i])

\* an item with the fields of a Calamity and the type DISRUPTION is not
\* parsed as a Calamity
C6_Witness ==
    /\ AnsweredJson /\ call.op = "DisruptionsAPI.get"
    /\ call.resp.content.v.t = "dict"
    /\ Fits("Calamity", call.resp.content.v)
    /\ ~Fits("Disruption", call.resp.content.v)
    /\ ShapeByDiscriminator(call.resp.content.v) = "Disruption"
    /\ outcome = RaiseOther("ValidationError")

\* C7: when every element of the response list validates, list and
\* list_for_station return a list of the same length whose i-th element is
\* the dispatch of the i-th response element; an empty list gives an empty
\* list.
C7_ListKeepsOrder ==
    (AnsweredJson /\ call.op \in ListOps /\ call.resp.content.v.t = "list") =>
        LET items == call.resp.content.v.items
        IN  (\A i \in 1..Len(items) : _parse_item(items[i]).kind = "return") =>
                /\ outcome.kind = "return"
                /\ outcome.value.t = "list"
                /\ Len(outcome.value.items) = Len(items)
                /\ \A i \in 1..Len(items) :
                       outcome.value.items[i] = _parse_item(items[i]).value

C7_Witness ==
    /\ AnsweredJson /\ call.op = "DisruptionsAPI.list"
    /\ outcome.kind = "return"
    /\ outcome.value.t = "list"
    /\ Len(outcome.value.items) = 2
    /\ outcome.value.items[1].cls = "Disruption"
    /\ outcome.value.items[2].cls = "Calamity"

\* the elements of a response list that fail the validation their
\* discriminator selects
FailingElements(items) ==
    {i \in 1..Len(items) :
        /\ items[i].t = "dict"
        /\ ~Fits(ShapeByDiscriminator(items[i]), items[i])}

\* C8: if an element of the response list of list or list_for_station fails
\* the validation its discriminator selects, the whole call raises and no
\* partial list is returned: the call raises the error of the first element
\* that cannot be parsed.
C8_FailFast ==
    (AnsweredJson /\ call.op \in ListOps /\ call.resp.content.v.t = "list") =>
        LET items == call.resp.content.v.items
            unparsed == {i \in 1..Len(items) : _parse_item(items[i]).kind = "raise"}
        IN  FailingElements(items) # {} =>
                /\ outcome.kind = "raise"
                /\ \E i \in unparsed :
                       /\ \A j \in unparsed : i <= j
                       /\ outcome = _parse_item(items[i])
                /\ unparsed = FailingElements(items) =>
                       outcome = RaiseOther("ValidationError")

\* a good element before a bad one: nothing is returned
C8_Witness ==
    /\ AnsweredJson /\ call.op = "DisruptionsAPI.list_for_station"
    /\ call.resp.content.v.t = "list"
    /\ FailingElements(call.resp.content.v.items) = {2}
    /\ outcome = RaiseOther("ValidationError")

\* the statements that fill the query of an endpoint operation
StatementsOf(op) ==
    CASE op = "DisruptionsAPI.list" -> DisruptionsAPI_list_statements
      [] op = "StationsAPI.list_v2" -> StationsAPI_list_v2_statements
      [] op = "StationsAPI.list_nearest_v2" -> StationsAPI_list_nearest_v2_statements
      [] op = "StationsAPI.list_v3" -> StationsAPI_list_v3_statements
      [] op = "StationsAPI.list_nearest_v3" -> StationsAPI_list_nearest_v3_statements
      [] op = "StationsAPI.get" -> StationsAPI_get_statements
      [] op = "TravelAPI.get_departures" -> TravelAPI_get_departures_statements
      [] op = "TravelAPI.get_arrivals" -> TravelAPI_get_arrivals_statements
      [] op = "TravelAPI.get_journey" -> TravelAPI_get_journey_statements
      [] op = "TravelAPI.plan_trip" -> TravelAPI_plan_trip_statements
      [] op = "TravelAPI.get_trip" -> TravelAPI_get_trip_statements
      [] op = "TravelAPI.get_booked_trip" -> TravelAPI_get_booked_trip_statements
      [] op = "TravelAPI.get_price" -> TravelAPI_get_price_statements
      [] op = "TravelAPI.get_price_v2" -> TravelAPI_get_price_v2_statements
      [] op = "TravelAPI.get_stations" -> TravelAPI_get_stations_statements
      [] op = "TravelAPI.get_nearest_stations" -> TravelAPI_get_nearest_stations_statements
      [] op = "TravelAPI.get_calamities" -> TravelAPI_get_calamities_statements
      [] op = "TravelAPI.list_disruptions" -> TravelAPI_list_disruptions_statements
      [] OTHER -> << >>

\* an endpoint operation has run and its request went to the server
EndpointCalled ==
    /\ call # NoCall
    /\ call.op \notin TransportOps
    /\ request # NoRequest

\* the keys of the query that went to the transport
QueryKeys ==
    IF request.params = None THEN {} ELSE DictKeys(request.params.items)

\* C9: whatever the endpoint operation, a parameter the caller left unset
\* (None) has no key in the query that goes to the transport: no statement
\* stores it, be it as None, as "" or as "None".
C9_UnsetParameterHasNoKey ==
    EndpointCalled =>
        \A i \in 1..Len(StatementsOf(call.op)) :
            LET st == StatementsOf(call.op)[i]
            IN  call.kw[st.arg] = None => st.key \notin QueryKeys

\* a call that passes some parameters and leaves others unset: the query has
\* the keys of the former and not those of the latter
C9_Witness ==
    /\ EndpointCalled
    /\ call.op = "TravelAPI.plan_trip"
    /\ "via_station" \in call.given
    /\ call.kw["origin_walk"] = None
    /\ "viaStation" \in QueryKeys
    /\ "originWalk" \notin QueryKeys

\* False and 0, as a caller passes them
FalseOrZero == {Bool(FALSE), Num(0), Flt(0)}

\* the parameters the caller passed as False or 0 all have their key in the
\* query, with the value passed, but for those in `except`
FalseOrZeroSent(except) ==
    EndpointCalled =>
        \A i \in 1..Len(StatementsOf(call.op)) :
            LET st == StatementsOf(call.op)[i]
            IN  ( /\ st.arg \in call.given
                  /\ call.kw[st.arg] \in FalseOrZero
                  /\ <<call.op, st.arg>> \notin except )
                => /\ st.key \in QueryKeys
                   /\ DictGet(request.params.items, st.key, None) = call.kw[st.arg]

\* C10, as the claim states it: every boolean or numeric parameter passed as
\* False or 0 is in the query with that value, search_for_arrival of
\* plan_trip among them.
C10_AsStated == FalseOrZeroSent({})

\* C10: every boolean or numeric parameter passed as False or 0 is in the
\* query with that value, except search_for_arrival of plan_trip, whose key is
\* in the query exactly when it is True.
C10_FalseAndZeroAreSent ==
    /\ FalseOrZeroSent({<<"TravelAPI.plan_trip", "search_for_arrival">>})
    /\ (EndpointCalled /\ call.op = "TravelAPI.plan_trip") =>
           /\ "searchForArrival" \in QueryKeys
                  <=> call.kw["search_for_arrival"] = Bool(TRUE)
           /\ "searchForArrival" \in QueryKeys =>
                  DictGet(request.params.items, "searchForArrival", None) = Bool(TRUE)

\* plan_trip called with passing=False: the query has passing=False
C10_Witness ==
    /\ EndpointCalled
    /\ call.op = "TravelAPI.plan_trip"
    /\ "passing" \in call.given
    /\ call.kw["passing"] = Bool(FALSE)
    /\ DictGet(request.params.items, "passing", None) = Bool(FALSE)

\* the deprecated parameters, each with the key it has in the query
DeprecatedParameters ==
    { [op |-> "TravelAPI.plan_trip", arg |-> "departure", key |-> "departure"],
      [op |-> "TravelAPI.plan_trip", arg |-> "shorter_change", key |-> "shorterChange"],
      [op |-> "TravelAPI.plan_trip", arg |-> "minimal_change_time",
       key |-> "minimalChangeTime"],
      [op |-> "TravelAPI.plan_trip", arg |-> "origin_accessible",
       key |-> "originAccessible"],
      [op |-> "TravelAPI.plan_trip", arg |-> "travel_assistance_transfer_time",
       key |-> "travelAssistanceTransferTime"],
      [op |-> "TravelAPI.get_trip", arg |-> "source_ctx_recon", key |-> "sourceCtxRecon"] }

\* the deprecated parameters a call passes
SuppliedDeprecated(c) ==
    {d \in DeprecatedParameters : d.op = c.op /\ c.kw[d.arg] # None}

\* the step in which the next call of the script runs
CallStep == script # << >> /\ script' = Tail(script)

\* C11: a call that passes one deprecated parameter and no other emits
\* exactly one DeprecationWarning, and on an open client its request goes out
\* with the parameter in the query, under its wire name and with the value the
\* caller gave.
C11_OneNoticeAndPassThrough ==
    [][\A d \in DeprecatedParameters :
           (CallStep /\ SuppliedDeprecated(Head(script)) = {d}) =>
               /\ Len(notices') = 1
               /\ notices'[1].category = "DeprecationWarning"
               /\ ~is_closed =>
                      /\ request' # NoRequest
                      /\ request'.params # None
                      /\ d.key \in DictKeys(request'.params.items)
                      /\ DictGet(request'.params.items, d.key, None)
                             = Head(script).kw[d.arg]]_vars

\* plan_trip(minimal_change_time=0): one warning, minimalChangeTime=0 sent
C11_Witness ==
    /\ call # NoCall
    /\ call.op = "TravelAPI.plan_trip"
    /\ SuppliedDeprecated(call) =
           {[op |-> "TravelAPI.plan_trip", arg |-> "minimal_change_time",
             key |-> "minimalChangeTime"]}
    /\ call.kw["minimal_change_time"] = Num(0)
    /\ Len(notices) = 1
    /\ request # NoRequest
    /\ DictGet(request.params.items, "minimalChangeTime", None) = Num(0)

\* the message plan_trip has for a deprecated parameter of its own
PlanTripMessage(arg) ==
    TravelAPI_plan_trip_deprecated[
        CHOOSE i \in 1..Len(TravelAPI_plan_trip_deprecated) :
            TravelAPI_plan_trip_deprecated[i][1] = arg][2]

\* C12: plan_trip emits as many warnings as the call passes deprecated
\* parameters, whatever the subset of the five: one for each parameter passed,
\* with that parameter's message, none for the others, and none at all when
\* the call passes none of them.
C12_OneNoticePerDeprecatedParameter ==
    (call # NoCall /\ call.op = "TravelAPI.plan_trip") =>
        LET supplied == {d.arg : d \in SuppliedDeprecated(call)}
        IN  /\ Len(notices) = Cardinality(supplied)
            /\ \A i \in 1..Len(notices) : notices[i].category = "DeprecationWarning"
            /\ \A a \in supplied :
                   Cardinality({i \in 1..Len(notices) :
                                    notices[i].message = PlanTripMessage(a)}) = 1
            /\ \A a, b \in supplied : a # b => PlanTripMessage(a) # PlanTripMessage(b)

\* plan_trip called with three of the deprecated parameters: three warnings
C12_Witness ==
    /\ call # NoCall
    /\ call.op = "TravelAPI.plan_trip"
    /\ {d.arg : d \in SuppliedDeprecated(call)} =
           {"departure", "origin_accessible", "travel_assistance_transfer_time"}
    /\ Len(notices) = 3

\* plan_trip called with none of the deprecated parameters: no warning
C12_WitnessNone ==
    /\ call # NoCall
    /\ call.op = "TravelAPI.plan_trip"
    /\ SuppliedDeprecated(call) = {}
    /\ call.given # {}
    /\ notices = << >>

\* the deprecated methods of TravelAPI
DeprecatedMethods ==
    {"TravelAPI.get_stations", "TravelAPI.get_nearest_stations",
     "TravelAPI.get_calamities", "TravelAPI.list_disruptions",
     "TravelAPI.list_station_disruptions", "TravelAPI.get_disruption"}

\* the path of the deprecated endpoint a call of a deprecated method is for
DeprecatedPath(c) ==
    CASE c.op = "TravelAPI.get_stations" -> "/reisinformatie-api/api/v2/stations"
      [] c.op = "TravelAPI.get_nearest_stations" ->
             "/reisinformatie-api/api/v2/stations/nearest"
      [] c.op = "TravelAPI.get_calamities" -> "/reisinformatie-api/api/v1/calamities"
      [] c.op = "TravelAPI.list_disruptions" -> "/reisinformatie-api/api/v3/disruptions"
      [] c.op = "TravelAPI.list_station_disruptions" ->
             "/reisinformatie-api/api/v3/disruptions/station/" \o c.kw["station_code"].s
      [] c.op = "TravelAPI.get_disruption" ->
             "/reisinformatie-api/api/v3/disruptions/" \o c.kw["disruption_type"].s
             \o "/" \o c.kw["disruption_id"].s

\* C13: every call of a deprecated method emits exactly one
\* DeprecationWarning and, on an open client, still sends its GET request to
\* the deprecated endpoint's path.
C13_DeprecatedMethodWarnsAndCalls ==
    [][(CallStep /\ Head(script).op \in DeprecatedMethods) =>
           /\ Len(notices') = 1
           /\ notices'[1].category = "DeprecationWarning"
           /\ ~is_closed =>
                  /\ request' # NoRequest
                  /\ request'.method = "GET"
                  /\ request'.url
                         = Str("https://gateway.apiportal.ns.nl"
                               \o DeprecatedPath(Head(script)))]_vars

\* get_stations has run on an open client: one warning, and the request sent
C13_Witness ==
    /\ call # NoCall
    /\ call.op = "TravelAPI.get_stations"
    /\ Len(notices) = 1
    /\ request # NoRequest
    /\ request.url = Str("https://gateway.apiportal.ns.nl/reisinformatie-api/api/v2/stations")
    /\ outcome.kind = "return"

\* what replaces each deprecated parameter; shorter_change has no replacement
\* ("Removed; no replacement.")
ParameterReplacement(arg) ==
    CASE arg = "departure" -> "'search_for_arrival'"
      [] arg = "minimal_change_time" -> "'add_change_time'"
      [] arg = "origin_accessible" -> "'travel_assistance'"
      [] arg = "travel_assistance_transfer_time" -> "'add_change_time'"
      [] arg = "source_ctx_recon" -> "the sourceCtxRecon field in the Trip response"

\* what replaces each deprecated method
MethodReplacement(op) ==
    CASE op \in {"TravelAPI.get_stations", "TravelAPI.get_nearest_stations"} ->
             "the dedicated Stations API at https://gateway.apiportal.ns.nl/nsapp-stations"
      [] op = "TravelAPI.get_calamities" ->
             "client.disruptions.list(disruption_type=DisruptionType.calamity)"
      [] op = "TravelAPI.list_disruptions" -> "client.disruptions.list()"
      [] op = "TravelAPI.list_station_disruptions" ->
             "client.disruptions.list_for_station()"
      [] op = "TravelAPI.get_disruption" -> "client.disruptions.get()"

Replacements ==
    {ParameterReplacement(d.arg) : d \in {e \in DeprecatedParameters :
                                              e.arg # "shorter_change"}}
    \cup {MethodReplacement(op) : op \in DeprecatedMethods}

\* the text of a message before and after the replacement it names
BeforeReplacement ==
    {"The '" \o d.arg \o "' parameter is deprecated. Use " : d \in DeprecatedParameters}
    \cup {m \o "() is deprecated by NS. Use " :
              m \in {"get_stations", "get_nearest_stations", "get_calamities",
                     "list_disruptions", "list_station_disruptions", "get_disruption"}}
AfterReplacement ==
    {" instead.",
     " instead, which uses the dedicated Disruptions API "
     \o "(https://gateway.apiportal.ns.nl/disruptions)."}

\* the message tells to use r instead
Names(message, r) ==
    \E before \in BeforeReplacement, after \in AfterReplacement :
        message = before \o r \o after

\* C14, as the claim states it: every deprecation notice names a replacement.
C14_AsStated ==
    \A i \in 1..Len(notices) : \E r \in Replacements : Names(notices[i].message, r)

\* C14: every deprecation notice names what replaces the parameter or the
\* method it is about, except the notice for shorter_change of plan_trip, which
\* names none: it says the parameter has no effect and that NS removed the
\* functionality.
C14_NoticeNamesReplacement ==
    call # NoCall =>
        /\ \A d \in SuppliedDeprecated(call) :
               IF d.arg = "shorter_change"
               THEN /\ \E i \in 1..Len(notices) :
                           notices[i].message =
                               "The 'shorter_change' parameter is deprecated and has "
                               \o "no effect. NS removed this functionality."
               ELSE \E i \in 1..Len(notices) :
                        Names(notices[i].message, ParameterReplacement(d.arg))
        /\ call.op \in DeprecatedMethods =>
               /\ Len(notices) = 1
               /\ Names(notices[1].message, MethodReplacement(call.op))
        /\ \A i \in 1..Len(notices) :
               \/ \E r \in Replacements : Names(notices[i].message, r)
               \/ /\ call.op = "TravelAPI.plan_trip"
                  /\ call.kw["shorter_change"] # None
                  /\ \A r \in Replacements : ~Names(notices[i].message, r)

\* get_disruption has run: its notice names client.disruptions.get()
C14_Witness ==
    /\ call # NoCall
    /\ call.op = "TravelAPI.get_disruption"
    /\ Len(notices) = 1
    /\ Names(notices[1].message, "client.disruptions.get()")

\* the call that ran used something deprecated
UsedDeprecated ==
    /\ call # NoCall
    /\ \/ call.op \in DeprecatedMethods
       \/ /\ call.op \in {"TravelAPI.plan_trip", "TravelAPI.get_trip"}
          /\ SuppliedDeprecated(call) # {}

\* what the response alone gives the caller of a call that uses something
\* deprecated: the transport's error, or the value made of the body
OutcomeOfResponse ==
    LET t == IF request = NoRequest THEN RaiseOther("RuntimeError")
             ELSE _handle_response(call.resp)
    IN  IF t.kind = "raise" THEN t
        ELSE CASE call.op = "TravelAPI.plan_trip" ->
                      model_validate("TravelAdvice", t.value)
               [] call.op = "TravelAPI.get_trip" -> model_validate("Trip", t.value)
               [] call.op \in {"TravelAPI.get_stations",
                               "TravelAPI.get_nearest_stations"} ->
                      ValidatedPayload("StationResponse", t.value)
               [] call.op = "TravelAPI.get_calamities" ->
                      model_validate("CalamitiesResponse", t.value)
               [] OTHER -> Return(t.value)

\* C15: a call that uses a deprecated parameter or method gives its caller
\* what the response alone determines, the value on success and the transport
\* or validation error on failure; no outcome is a warning, and the notice is
\* there whatever the outcome.
C15_NoticeLeavesOutcome ==
    UsedDeprecated =>
        /\ outcome = OutcomeOfResponse
        /\ Len(notices) >= 1
        /\ outcome.kind = "raise" => outcome.exc # "DeprecationWarning"

\* get_trip(source_ctx_recon=...) answered 404: NotFoundError, and the notice
C15_Witness ==
    /\ UsedDeprecated
    /\ call.op = "TravelAPI.get_trip"
    /\ call.resp.status_code = 404
    /\ outcome.kind = "raise"
    /\ outcome.exc = "NotFoundError"
    /\ Len(notices) = 1

\* list_disruptions answered 200 with a list: the list returned, and the notice
C15_WitnessSuccess ==
    /\ UsedDeprecated
    /\ call.op = "TravelAPI.list_disruptions"
    /\ outcome.kind = "return"
    /\ outcome.value.t = "list"
    /\ Len(outcome.value.items) = 1
    /\ Len(notices) = 1

\* plan_trip with a deprecated parameter, answered 500: ServerError, and the notice
C15_WitnessPlanTrip ==
    /\ UsedDeprecated
    /\ call.op = "TravelAPI.plan_trip"
    /\ call.resp.status_code = 500
    /\ outcome.kind = "raise"
    /\ outcome.exc = "ServerError"
    /\ Len(notices) = 1

\* C16: once control has left a `with` block on an NSClient or on an
\* HttpTransport, the connection pool is closed, whether the block ended
\* normally or a call in it raised.
C16_ScopeExitCloses ==
    scope = "left" => (is_closed /\ close_count >= 1 /\ left_by \in {"return", "raise"})

\* a call in a `with NSClient(...)` block got 404 and raised; the block was
\* left with the exception and the pool is closed
C16_Witness ==
    /\ scope = "left"
    /\ left_by = "raise"
    /\ call # NoCall
    /\ call.op = "StationsAPI.get"
    /\ request # NoRequest
    /\ outcome.kind = "raise"
    /\ outcome.exc = "NotFoundError"
    /\ close_count = 1
    /\ is_closed

\* a `with HttpTransport(...)` block that ended normally: the pool is closed
C16_WitnessTransport ==
    /\ scope = "left"
    /\ left_by = "return"
    /\ call # NoCall
    /\ call.op = "HttpTransport.get"
    /\ outcome.kind = "return"
    /\ close_count = 1
    /\ is_closed

C17_WitnessTwice ==
    /\ scope = "outside"
    /\ close_count = MaxCloses
    /\ release_count = 1

\* ---------------------------------------------------------------------------
\* the object has been closed: close() ran on it, or its scoped block was left
HasBeenClosed == close_count >= 1 \/ scope = "left"

\* an error of the library raised for the status of the answer
StatusError(o) == o.kind = "raise" /\ "status_code" \in DOMAIN o

\* C18: the endpoint modules of a client share its one transport: once the
\* client or the transport has been closed, by close() or by leaving a scoped
\* block, every later endpoint call and every later get/post raises and sends
\* nothing; on a client not yet closed each call is sent and succeeds or
\* fails by the answer to that call alone, whatever the earlier calls gave.
C18_ClosedClientRaises ==
    [][CallStep =>
         LET resp == Head(script).resp
         IN  IF HasBeenClosed
             THEN /\ outcome'.kind = "raise"
                  /\ request' = NoRequest
             ELSE /\ request' # NoRequest
                  /\ StatusError(outcome') <=> ~is_success(resp)
                  /\ ~is_success(resp) => outcome' = _handle_response(resp)
                  /\ outcome'.kind = "return" => is_success(resp)]_vars

\* a call returned, the client was closed, and the next call, though answered
\* 200, raised without sending
C18_Witness ==
    /\ HasBeenClosed
    /\ history = <<"return", "raise">>
    /\ call.op \notin {"HttpTransport.get", "HttpTransport.post"}
    /\ call.resp.status_code = 200
    /\ request = NoRequest

\* the same on a transport used on its own, closed by leaving its block
C18_WitnessTransport ==
    /\ scope = "left"
    /\ history = <<"return", "raise">>
    /\ call.op \in {"HttpTransport.get", "HttpTransport.post"}
    /\ request = NoRequest

\* on an open client a call succeeds after one that failed
C18_WitnessAfterFailure ==
    /\ ~HasBeenClosed
    /\ history = <<"raise", "return">>

\* on an open client a call fails after one that succeeded
C18_WitnessAfterSuccess ==
    /\ ~HasBeenClosed
    /\ history = <<"return", "raise">>
    /\ StatusError(outcome)

\* ---------------------------------------------------------------------------
\* the caller passed `arg` to the endpoint call that ran
Supplied(arg) ==
    /\ EndpointCalled
    /\ arg \in DOMAIN call.kw
    /\ call.kw[arg] # None

\* the names of the headers on the wire, and the keys of the query, whose
\* value is v
HeadersCarrying(v) ==
    {Lower(request.wire_headers[i][1]) :
        i \in {j \in 1..Len(request.wire_headers) : request.wire_headers[j][2] = v}}
QueryCarrying(v) ==
    IF request.params = None THEN {}
    ELSE {request.params.items[i][1] :
            i \in {j \in 1..Len(request.params.items) : request.params.items[j][2] = v}}

\* authorization, push_id and the sync api_key each go under their one header
FixedHeaderNames ==
    /\ Supplied("authorization") =>
           /\ HeadersCarrying(call.kw["authorization"]) = {"authorization"}
           /\ QueryCarrying(call.kw["authorization"]) = {}
    /\ Supplied("push_id") =>
           /\ HeadersCarrying(call.kw["push_id"]) = {"x-ns-push-id"}
           /\ QueryCarrying(call.kw["push_id"]) = {}
    /\ Supplied("api_key") =>
           /\ HeadersCarrying(call.kw["api_key"]) = {"x-api-key"}
           /\ QueryCarrying(call.kw["api_key"]) = {}

\* C19 as stated: `language` goes under one header name in every operation
\* that accepts it (Accept-Language, the name the disruptions endpoints use),
\* and never into the query.
C19_AsStated ==
    /\ FixedHeaderNames
    /\ Supplied("language") =>
           /\ HeadersCarrying(call.kw["language"]) = {"accept-language"}
           /\ QueryCarrying(call.kw["language"]) = {}

\* where each operation puts `language`
LanguageCarrier(op) ==
    CASE op \in {"DisruptionsAPI.list", "DisruptionsAPI.get",
                 "DisruptionsAPI.list_for_station", "TravelAPI.list_disruptions"} ->
             [headers |-> {"accept-language"}, query |-> {}]
      [] op \in {"TravelAPI.get_trip", "TravelAPI.get_booked_trip"} ->
             [headers |-> {"lang"}, query |-> {}]
      [] op \in {"TravelAPI.get_departures", "TravelAPI.get_arrivals",
                 "TravelAPI.plan_trip", "TravelAPI.get_calamities"} ->
             [headers |-> {}, query |-> {"lang"}]

\* C19: authorization is sent under Authorization, push_id under x-ns-push-id
\* and the sync api_key under x-api-key in every operation that accepts them,
\* never in the query; `language` is sent once, at a place fixed per
\* operation: the header Accept-Language (disruptions endpoints), the header
\* lang (get_trip, get_booked_trip) or the query parameter lang
\* (get_departures, get_arrivals, plan_trip, get_calamities).
C19_HeaderNames ==
    /\ FixedHeaderNames
    /\ Supplied("language") =>
           /\ HeadersCarrying(call.kw["language"]) = LanguageCarrier(call.op).headers
           /\ QueryCarrying(call.kw["language"]) = LanguageCarrier(call.op).query

\* get_booked_trip(authorization=..., language=...): both headers on the wire
C19_Witness ==
    /\ Supplied("language")
    /\ Supplied("authorization")
    /\ call.op = "TravelAPI.get_booked_trip"
    /\ HeaderGet(request.wire_headers, "lang") = call.kw["language"]
    /\ HeaderGet(request.wire_headers, "Authorization") = call.kw["authorization"]

\* get_departures(language=...): the query carries it, no header does
C19_WitnessQuery ==
    /\ Supplied("language")
    /\ call.op = "TravelAPI.get_departures"
    /\ "lang" \in QueryKeys
    /\ HeadersCarrying(call.kw["language"]) = {}

\* list_personal and sync_saved_trips: the headers x-ns-push-id and x-api-key
C19_WitnessPush ==
    /\ Supplied("push_id")
    /\ HeaderGet(request.wire_headers, "x-ns-push-id") = call.kw["push_id"]
C19_WitnessSync ==
    /\ Supplied("api_key")
    /\ HeaderGet(request.wire_headers, "x-api-key") = call.kw["api_key"]

\* ---------------------------------------------------------------------------
\* the enum members among the arguments of the call that ran
EnumArguments == {a \in DOMAIN call.kw : call.kw[a].t = "enum"}

\* what the query holds under `key` (None when the key is absent)
QueryValue(key) ==
    IF request.params = None THEN None ELSE DictGet(request.params.items, key, None)

\* C20: an enum member among the arguments is written by its value, never by
\* its name: DisruptionsAPI.list sends type=<value>, DisruptionsAPI.get asks
\* for <base>/v3/<value>/<id>, TravelAPI.get_price sends travelClass=<value>;
\* no query value and no path carries the member's name.
C20_EnumByWireValue ==
    EndpointCalled =>
        /\ (call.op = "DisruptionsAPI.list" /\ Supplied("disruption_type")) =>
               QueryValue("type") = Str(call.kw["disruption_type"].value)
        /\ call.op = "DisruptionsAPI.get" =>
               request.url = Str(Disruptions_BASE_URL \o "/v3/"
                                 \o call.kw["disruption_type"].value
                                 \o "/" \o call.kw["disruption_id"].s)
        /\ (call.op = "TravelAPI.get_price" /\ Supplied("travel_class")) =>
               QueryValue("travelClass") = Str(call.kw["travel_class"].value)
        /\ \A a \in EnumArguments :
               /\ call.kw[a].name # call.kw[a].value
               /\ QueryCarrying(Str(call.kw[a].name)) = {}
               /\ QueryCarrying(call.kw[a]) = {}
               /\ QueryCarrying(Str(call.kw[a].value)) # {}
                      \/ call.op = "DisruptionsAPI.get"

\* get_price(travel_class=TravelClass.first_class) sent travelClass=FIRST_CLASS
C20_Witness ==
    /\ EndpointCalled
    /\ call.op = "TravelAPI.get_price"
    /\ Supplied("travel_class")
    /\ call.kw["travel_class"].name = "first_class"
    /\ QueryValue("travelClass") = Str("FIRST_CLASS")

\* list(disruption_type=DisruptionType.disruption) sent type=DISRUPTION
C20_WitnessList ==
    /\ EndpointCalled
    /\ call.op = "DisruptionsAPI.list"
    /\ Supplied("disruption_type")
    /\ call.kw["disruption_type"].name = "disruption"
    /\ QueryValue("type") = Str("DISRUPTION")

\* get(DisruptionType.calamity, id) asked for .../v3/CALAMITY/<id>
C20_WitnessPath ==
    /\ EndpointCalled
    /\ call.op = "DisruptionsAPI.get"
    /\ call.kw["disruption_type"].name = "calamity"
    /\ request.url = Str(Disruptions_BASE_URL \o "/v3/CALAMITY/" \o call.kw["disruption_id"].s)

\* ---------------------------------------------------------------------------
\* the combinations a client could reject before sending: plan_trip with the
\* origin given twice, plan_trip with no origin and no destination,
\* get_journey with neither train nor journey_id
OriginGivenTwice ==
    /\ call.op = "TravelAPI.plan_trip"
    /\ {"from_station", "origin_lat", "origin_lng"} \subseteq call.given
NoOriginNoDestination ==
    /\ call.op = "TravelAPI.plan_trip"
    /\ call.given \cap {"from_station", "to_station", "origin_uic_code", "origin_lat",
                        "origin_lng", "origin_name", "destination_uic_code",
                        "destination_lat", "destination_lng", "destination_name"} = {}
NeitherTrainNorId ==
    /\ call.op = "TravelAPI.get_journey"
    /\ call.given \cap {"train", "journey_id"} = {}
Combination ==
    /\ call # NoCall
    /\ call.op \in {"TravelAPI.plan_trip", "TravelAPI.get_journey"}
    /\ OriginGivenTwice \/ NoOriginNoDestination \/ NeitherTrainNorId

\* the keys of the arguments passed whose stored expression is not None, and
\* the keys written whatever is passed
KeysOfGiven ==
    LET sts == StatementsOf(call.op)
    IN  {sts[i].key : i \in {j \in 1..Len(sts) :
                                \/ sts[j].how = "always"
                                \/ /\ sts[j].arg \in call.given
                                   /\ Via(sts[j].via, call.kw[sts[j].arg]) # None}}

\* C21: no combination of parameters is rejected before sending: plan_trip
\* with the origin both as station code and as coordinates, plan_trip with no
\* origin and no destination and get_journey with neither train nor
\* journey_id send their one request on an open client, with a query holding
\* exactly the keys of the arguments passed and their values, and end as the
\* answer determines: the transport's error for a status that is no success,
\* a value for the body of the endpoint.
C21_NoClientSideRejection ==
    Combination =>
        IF request = NoRequest
        THEN outcome = RaiseOther("RuntimeError")
        ELSE /\ QueryKeys = KeysOfGiven
             /\ OriginGivenTwice =>
                    /\ QueryValue("fromStation") = call.kw["from_station"]
                    /\ QueryValue("originLat") = call.kw["origin_lat"]
                    /\ QueryValue("originLng") = call.kw["origin_lng"]
             /\ StatusError(outcome) <=> ~is_success(call.resp)
             /\ ~is_success(call.resp) => outcome = _handle_response(call.resp)
             /\ call.resp \in Ok({TravelAdviceBody, JourneyBody}) => outcome.kind = "return"
             /\ outcome.kind = "raise" =>
                    outcome.exc \notin {"ValueError", "TypeError"}

\* plan_trip(from_station=..., origin_lat=..., origin_lng=...) answered 200
C21_Witness ==
    /\ Combination
    /\ OriginGivenTwice
    /\ request # NoRequest
    /\ QueryKeys = {"fromStation", "originLat", "originLng"}
    /\ outcome.kind = "return"

\* plan_trip() with nothing at all, answered 404
C21_WitnessNothing ==
    /\ Combination
    /\ NoOriginNoDestination
    /\ call.given = {}
    /\ request # NoRequest
    /\ QueryKeys = {}
    /\ outcome.kind = "raise"
    /\ outcome.exc = "NotFoundError"

\* get_journey() with neither train nor journey_id, answered 200
C21_WitnessJourney ==
    /\ Combination
    /\ NeitherTrainNorId
    /\ request # NoRequest
    /\ QueryKeys = {"omitCrowdForecast"}
    /\ outcome.kind = "return"

C22_WitnessListV2 ==
    /\ Len(sent) = 3
    /\ sent[1].op = "StationsAPI.list_v2"
    /\ sent[3].op = "StationsAPI.list_v2"
    /\ sent[2].op = "TravelAPI.get_departures"
    /\ sent[1].request = sent[3].request

\* ---------------------------------------------------------------------------
\* what the call c gives when it runs alone on the client: its warnings, its
\* request, its outcome
Alone(c) ==
    LET r == RequestOf(c)
        t == IF r.method = "GET"
             THEN get(r.url, r.params, r.headers, c.resp)
             ELSE post(r.url, r.json, r.headers, c.resp)
    IN  [notices |-> NoticesOf(c),
         request |-> t.request,
         outcome |-> IF t.result.kind = "return" THEN ParseOf(c, t.result.value)
                     ELSE t.result]

\* the requests of the wire log that come from the call at `site`
SentBy(site) ==
    {i \in DOMAIN sent : /\ sent[i].op = sites[site].call.op
                         /\ sent[i].kw = sites[site].call.kw
                         /\ sent[i].request = sites[site].wire}

C23_WitnessBothBuilt ==
    /\ sites # << >>
    /\ sites[1].pc = "built"
    /\ sites[2].pc = "built"
    /\ sites[1].locals # sites[2].locals
    /\ sent = << >>

\* ---------------------------------------------------------------------------
\* C24: a call on an open client puts exactly one request on the wire, the
\* one it built, and no other step sends anything: nothing is retried.  When
\* the answer to an endpoint call is no 2xx, what reaches the caller is the
\* transport's error as the transport raised it (class, message, status
\* code): it is not caught, and nothing is parsed into a model.
C24_OneRequestNoRetry ==
    [][IF CallStep /\ ~is_closed
       THEN LET c == Head(script)
            IN  /\ Len(sent') = Len(sent) + 1
                /\ SubSeq(sent', 1, Len(sent)) = sent
                /\ sent'[Len(sent')].request = request'
                /\ sent'[Len(sent')].op = c.op
                /\ ~is_success(c.resp) =>
                       /\ outcome' = _handle_response(c.resp)
                       /\ outcome'.kind = "raise"
                       /\ outcome'.exc \in APIErrorFamily
                       /\ outcome'.status_code = c.resp.status_code
                       /\ outcome'.message = _extract_error_message(c.resp)
       ELSE sent' = sent]_vars

\* an endpoint call answered 500: one request sent, ServerError with the
\* status code and the text of the answer
C24_Witness ==
    /\ EndpointCalled
    /\ call.resp.status_code = 500
    /\ Len(sent) = 1
    /\ sent[1].request = request
    /\ outcome.kind = "raise"
    /\ outcome.exc = "ServerError"
    /\ outcome.status_code = 500
    /\ outcome.message = Str("Gateway timeout")

\* ---------------------------------------------------------------------------
\* the operations that parse the answer into typed models
ParsesIntoModels(op) ==
    op \notin {"DisruptionsAPI.sync_saved_trips", "TravelAPI.list_disruptions",
               "TravelAPI.list_station_disruptions", "TravelAPI.get_disruption"}

\* a 2xx answer that has the shape of no endpoint: no content, a page that is
\* no JSON, an empty JSON object, a JSON string
WrongShape(resp) == is_success(resp) /\ resp \in CommonResponses

\* C25: an operation that parses into typed models fails, with an error that
\* reaches the caller, on every 2xx body that has not the expected shape, the
\* no-content answer included; it returns no default, no empty list and no
\* partly parsed value in place of such a body.
C25_AsStated ==
    (EndpointCalled /\ ParsesIntoModels(call.op) /\ WrongShape(call.resp)) =>
        outcome.kind = "raise"

\* DisruptionsAPI.list answered 200 with the body {}: the list comprehension
\* iterates the keys of the empty dict and the caller gets []
C25_EmptyObjectGivesEmptyList ==
    /\ EndpointCalled
    /\ call.op \in {"DisruptionsAPI.list", "DisruptionsAPI.list_for_station",
                    "DisruptionsAPI.list_personal"}
    /\ call.resp = [status_code |-> 200, content |-> Json(Obj(<< >>))]
    /\ outcome = Return(Lst(<< >>))

\* ---------------------------------------------------------------------------
\* a typed model, or a list of typed models
Typed(v) ==
    \/ v.t = "model"
    \/ /\ v.t = "list"
       /\ \A i \in 1..Len(v.items) : v.items[i].t = "model"

\* C26 as stated: whatever the endpoint operation, the deprecated
\* list_disruptions, list_station_disruptions and get_disruption of TravelAPI
\* included, a call that succeeds hands its caller a typed model or a list of
\* typed models, never the decoded body as the transport returned it.
C26_AsStated ==
    (EndpointCalled /\ outcome.kind = "return") => Typed(outcome.value)

\* the methods declared `-> list` and `-> dict`
ReturnsDecodedBody ==
    {"TravelAPI.list_disruptions", "TravelAPI.list_station_disruptions",
     "TravelAPI.get_disruption"}

\* C26: a call that succeeds hands its caller a typed model or a list of
\* typed models, except sync_saved_trips, which returns None, and the
\* deprecated list_disruptions, list_station_disruptions and get_disruption
\* of TravelAPI, which return the decoded body as the transport returned it.
C26_TypedExceptDeclaredRaw ==
    (EndpointCalled /\ outcome.kind = "return") =>
        CASE call.op \in ReturnsDecodedBody ->
                 outcome = _handle_response(call.resp)
          [] call.op = "DisruptionsAPI.sync_saved_trips" -> outcome.value = None
          [] OTHER -> Typed(outcome.value)

\* TravelAPI.list_disruptions answered with a list of one disruption: the
\* caller gets the list of dicts
C26_Witness ==
    /\ EndpointCalled
    /\ call.op = "TravelAPI.list_disruptions"
    /\ outcome.kind = "return"
    /\ outcome.value.t = "list"
    /\ Len(outcome.value.items) = 1
    /\ outcome.value.items[1].t = "dict"

\* DisruptionsAPI.list answered with the same kind of list: a list of models
C26_WitnessTyped ==
    /\ EndpointCalled
    /\ call.op = "DisruptionsAPI.list"
    /\ outcome.kind = "return"
    /\ Len(outcome.value.items) >= 1
    /\ \A i \in 1..Len(outcome.value.items) :
           outcome.value.items[i].t = "model"
           /\ outcome.value.items[i].cls \in {"Disruption", "Calamity"}

\* ---------------------------------------------------------------------------
\* C27: the query of plan_trip has the key searchForArrival exactly when
\* search_for_arrival is True, and then it reads searchForArrival=true; a
\* call that passes no search_for_arrival, or passes False, has no such key.
C27_SearchForArrivalOnlyWhenTrue ==
    (EndpointCalled /\ call.op = "TravelAPI.plan_trip") =>
        /\ ("searchForArrival" \in QueryKeys) <=> (call.kw["search_for_arrival"] = Bool(TRUE))
        /\ "search_for_arrival" \notin call.given => "searchForArrival" \notin QueryKeys
        /\ "searchForArrival" \in QueryKeys =>
               primitive_value_to_str(QueryValue("searchForArrival")) = "true"

\* plan_trip(search_for_arrival=True): the key is there, with true
C27_Witness ==
    /\ EndpointCalled
    /\ call.op = "TravelAPI.plan_trip"
    /\ call.given = {"search_for_arrival"}
    /\ call.kw["search_for_arrival"] = Bool(TRUE)
    /\ QueryKeys = {"searchForArrival"}
    /\ primitive_value_to_str(QueryValue("searchForArrival")) = "true"

\* plan_trip(search_for_arrival=False): no key
C27_WitnessFalse ==
    /\ EndpointCalled
    /\ call.op = "TravelAPI.plan_trip"
    /\ call.given = {"search_for_arrival"}
    /\ call.kw["search_for_arrival"] = Bool(FALSE)
    /\ QueryKeys = {}

\* ---------------------------------------------------------------------------
\* the header names under which the argument is sent by some operation
HeadersOf(arg) ==
    CASE arg = "language" -> {"accept-language", "lang"}
      [] arg = "authorization" -> {"authorization"}
      [] arg = "push_id" -> {"x-ns-push-id"}
      [] arg = "api_key" -> {"x-api-key"}

\* the call did not pass the argument
NotPassed(entry, arg) == arg \notin DOMAIN entry.kw \/ entry.kw[arg] = None

\* C28: the headers of a call do not outlive it: every request of the wire
\* log whose call did not pass language, authorization, push_id or api_key
\* carries none of the headers of that argument, whatever the calls before
\* it passed, and after every call the default headers of the transport are
\* the subscription-key header alone.
C28_PerCallHeadersDoNotPersist ==
    /\ client_headers = TransportInit(api_key)
    /\ \A i \in DOMAIN sent :
           /\ sent[i].op \notin TransportOps =>
                  \A arg \in {"language", "authorization", "push_id", "api_key"} :
                      NotPassed(sent[i], arg) =>
                          HeaderNames(sent[i].request.wire_headers) \cap HeadersOf(arg) = {}
           /\ sent[i].request.headers = None =>
                  sent[i].request.wire_headers = TransportInit(api_key)

\* a call passed language and sent Accept-Language; a later call of another
\* kind passed none of the four arguments and sent the subscription key alone
C28_Witness ==
    \E i \in DOMAIN sent : \E j \in DOMAIN sent :
        /\ i < j
        /\ ~NotPassed(sent[i], "language")
        /\ "accept-language" \in HeaderNames(sent[i].request.wire_headers)
        /\ \A arg \in {"language", "authorization", "push_id", "api_key"} :
               NotPassed(sent[j], arg)
        /\ sent[j].request.wire_headers = TransportInit(api_key)

\* list(language=...) and then list() on the same client
C28_WitnessSameOperation ==
    \E i \in DOMAIN sent : \E j \in DOMAIN sent :
        /\ i < j
        /\ sent[i].op = "DisruptionsAPI.list"
        /\ sent[j].op = "DisruptionsAPI.list"
        /\ ~NotPassed(sent[i], "language")
        /\ NotPassed(sent[j], "language")
        /\ "accept-language" \in HeaderNames(sent[i].request.wire_headers)
        /\ "accept-language" \notin HeaderNames(sent[j].request.wire_headers)

\* ---------------------------------------------------------------------------
\* the headers= argument of the request that went to the transport, as a set
\* of name and value pairs
PerCallHeaders ==
    IF request.headers = None THEN {}
    ELSE {request.headers.items[i] : i \in 1..Len(request.headers.items)}

\* the pairs a call of get_trip or get_booked_trip has to pass
HeadersSupplied ==
    (IF call.kw["authorization"] # None
     THEN {<<"Authorization", call.kw["authorization"]>>} ELSE {})
    \cup (IF call.kw["language"] # None
          THEN {<<"lang", call.kw["language"]>>} ELSE {})

\* C29: get_trip passes exactly the headers whose arguments were supplied:
\* Authorization and lang with both (language does not drop Authorization),
\* the one alone with one, and no headers at all (None) with neither;
\* get_booked_trip always passes Authorization, and lang only when language
\* is supplied.
C29_HeadersAsSupplied ==
    (EndpointCalled /\ call.op \in {"TravelAPI.get_trip", "TravelAPI.get_booked_trip"}) =>
        /\ PerCallHeaders = HeadersSupplied
        /\ request.headers # None =>
               Len(request.headers.items) = Cardinality(HeadersSupplied)
        /\ call.op = "TravelAPI.get_trip" =>
               (request.headers = None <=> HeadersSupplied = {})
        /\ call.op = "TravelAPI.get_booked_trip" =>
               /\ request.headers # None
               /\ <<"Authorization", call.kw["authorization"]>> \in PerCallHeaders
               /\ ("lang" \in DictKeys(request.headers.items)) <=> (call.kw["language"] # None)

\* get_trip(authorization=..., language=...): both headers
C29_Witness ==
    /\ EndpointCalled
    /\ call.op = "TravelAPI.get_trip"
    /\ {"authorization", "language"} \subseteq call.given
    /\ PerCallHeaders = {<<"Authorization", Str("Bearer tok")>>, <<"lang", Str("nl")>>}

\* get_trip with language alone, with authorization alone, with neither
C29_WitnessLanguage ==
    /\ EndpointCalled
    /\ call.op = "TravelAPI.get_trip"
    /\ PerCallHeaders = {<<"lang", Str("nl")>>}
C29_WitnessAuthorization ==
    /\ EndpointCalled
    /\ call.op = "TravelAPI.get_trip"
    /\ PerCallHeaders = {<<"Authorization", Str("Bearer tok")>>}
C29_WitnessNeither ==
    /\ EndpointCalled
    /\ call.op = "TravelAPI.get_trip"
    /\ request.headers = None

\* get_booked_trip without and with language
C29_WitnessBooked ==
    /\ EndpointCalled
    /\ call.op = "TravelAPI.get_booked_trip"
    /\ PerCallHeaders = {<<"Authorization", Str("Bearer tok")>>}
C29_WitnessBookedLanguage ==
    /\ EndpointCalled
    /\ call.op = "TravelAPI.get_booked_trip"
    /\ PerCallHeaders = {<<"Authorization", Str("Bearer tok")>>, <<"lang", Str("nl")>>}

\* ---------------------------------------------------------------------------
\* the parameters with a default that is not None, with their query key and
\* that default
Defaulted ==
    {[op |-> "TravelAPI.get_departures", key |-> "maxJourneys", arg |-> "max_journeys", default |-> Num(40)],
     [op |-> "TravelAPI.get_arrivals", key |-> "maxJourneys", arg |-> "max_journeys", default |-> Num(40)],
     [op |-> "TravelAPI.get_journey", key |-> "omitCrowdForecast", arg |-> "omit_crowd_forecast", default |-> Bool(FALSE)],
     [op |-> "TravelAPI.get_trip", key |-> "travelRequestType", arg |-> "travel_request_type", default |-> Str("DEFAULT")],
     [op |-> "TravelAPI.get_price", key |-> "isJointJourney", arg |-> "is_joint_journey", default |-> Bool(FALSE)],
     [op |-> "TravelAPI.get_price", key |-> "adults", arg |-> "adults", default |-> Num(1)],
     [op |-> "TravelAPI.get_price", key |-> "children", arg |-> "children", default |-> Num(0)],
     [op |-> "TravelAPI.get_price_v2", key |-> "isJointJourney", arg |-> "is_joint_journey", default |-> Bool(FALSE)],
     [op |-> "TravelAPI.get_price_v2", key |-> "adults", arg |-> "adults", default |-> Num(1)],
     [op |-> "TravelAPI.get_price_v2", key |-> "children", arg |-> "children", default |-> Num(0)],
     [op |-> "TravelAPI.get_stations", key |-> "limit", arg |-> "limit", default |-> Num(10)],
     [op |-> "TravelAPI.get_nearest_stations", key |-> "limit", arg |-> "limit", default |-> Num(2)],
     [op |-> "TravelAPI.list_disruptions", key |-> "isActive", arg |-> "is_active", default |-> Bool(FALSE)]}

\* C30: a parameter with a default that is not None is in every request of
\* its operation, with the default when the caller passes nothing and with
\* the caller's value otherwise, be it False, 0 or "": maxJourneys,
\* omitCrowdForecast, travelRequestType, isJointJourney, adults, children,
\* limit, isActive, and the required ctxRecon of get_trip; the key station of
\* get_departures and get_arrivals is there only when the station argument
\* is a non-empty string.
C30_DefaultedParametersAlwaysSent ==
    EndpointCalled =>
        /\ \A d \in Defaulted :
               call.op = d.op =>
                   /\ d.key \in QueryKeys
                   /\ QueryValue(d.key) = call.kw[d.arg]
                   /\ d.arg \notin call.given => QueryValue(d.key) = d.default
        /\ call.op = "TravelAPI.get_trip" =>
               /\ "ctxRecon" \in QueryKeys
               /\ QueryValue("ctxRecon") = call.kw["ctx_recon"]
        /\ call.op \in {"TravelAPI.get_departures", "TravelAPI.get_arrivals"} =>
               /\ ("station" \in QueryKeys) <=> (call.kw["station"] # Str(""))
               /\ "station" \in QueryKeys => QueryValue("station") = call.kw["station"]

\* get_price(adults=0): adults=0 is sent, with the defaults of the others
C30_Witness ==
    /\ EndpointCalled
    /\ call.op = "TravelAPI.get_price"
    /\ call.given = {"adults"}
    /\ call.kw["adults"] = Num(0)
    /\ QueryValue("adults") = Num(0)
    /\ QueryValue("children") = Num(0)
    /\ QueryValue("isJointJourney") = Bool(FALSE)

\* get_departures(""): maxJourneys=40 and no station
C30_WitnessNoStation ==
    /\ EndpointCalled
    /\ call.op = "TravelAPI.get_departures"
    /\ call.kw["station"] = Str("")
    /\ call.given = {"station"}
    /\ QueryKeys = {"maxJourneys"}
    /\ QueryValue("maxJourneys") = Num(40)

\* get_trip(travel_request_type=""): the empty string is sent
C30_WitnessEmptyString ==
    /\ EndpointCalled
    /\ call.op = "TravelAPI.get_trip"
    /\ "travel_request_type" \in call.given
    /\ QueryValue("travelRequestType") = Str("")

=============================================================================
